---- MODULE Spec2Model ----
(***************************************************************************)
(* sls-memory: the playbook of error patterns, its keyword matcher, its    *)
(* validation, its feedback counters and its TF-IDF similarity store.      *)
(*                                                                         *)
(* A text is a sequence of characters, each a one-character string.        *)
(* A score is an exact fraction [num, den]: the code computes              *)
(* (matches / union.size) * 100 in IEEE doubles, and for the set sizes     *)
(* reached here the double compares with 20, 80, 100 and with other        *)
(* scores exactly as the fraction does.                                    *)
(***************************************************************************)
EXTENDS Integers, Sequences, FiniteSets, TLC

VARIABLES
    keywords1, keywords2, score,            \* calculateScore: inputs, result
    playbook, errorMessage, limit, results, \* findMatchingPatterns: inputs, result
    file,       \* ~/.sls-memory/playbook.yaml: its syntax and the records it holds
    pc,         \* per process: idle, or loaded (the playbook is read, not yet saved)
    inv,        \* per process: the running invocation and the playbook it loaded
    last,       \* what the invocation that ended last reported
    started,    \* history: the number of invocations that have loaded the playbook
    document, errors,   \* validatePlaybook: the parsed document, the result
    embeddings,     \* embeddings.db, table embeddings: pattern_id -> row
    vocabulary,     \* embeddings.db, table vocabulary: term -> row
    manager,        \* the EmbeddingsManager of the running process, if any
    built,          \* history: the arguments of the buildFromPatterns calls
    similar,        \* the query, the limit and the return value of the last findSimilar
    instance,       \* history: how many managers were constructed
    arguments, returned,    \* a function called on its own: its arguments, its return value
    clock           \* the time in seconds, as Date.now() gives it

scoreVars == <<keywords1, keywords2, score>>
matchVars == <<playbook, errorMessage, limit, results>>
storeVars == <<file, pc, inv, last, started>>
validateVars == <<document, errors>>
embVars == <<embeddings, vocabulary, manager, built, similar, instance, clock>>
callVars == <<arguments, returned>>
vars == <<scoreVars, matchVars, storeVars, validateVars, embVars, callVars>>

\* A result not computed yet is <<>>, a computed result r is <<r>>.
NotRun == <<>>
Ran(r) == <<r>>

\* The parts of the state a specification does not use stay at these values.
ScoreIdle == keywords1 = <<>> /\ keywords2 = <<>> /\ score = NotRun
MatchIdle == playbook = <<>> /\ errorMessage = <<>> /\ limit = 0 /\ results = NotRun
StoreIdle == file = <<>> /\ pc = <<>> /\ inv = <<>> /\ last = <<>> /\ started = 0
ValidateIdle == document = <<>> /\ errors = NotRun
CallIdle == arguments = <<>> /\ returned = <<>>
EmbIdle ==
    /\ embeddings = <<>> /\ vocabulary = <<>> /\ manager = <<>>
    /\ built = <<>> /\ similar = <<>> /\ instance = 0 /\ clock = 0

(***************************************************************************)
(* Characters and strings                                                  *)
(***************************************************************************)
LowerLetters == {"a", "b", "c", "d", "e", "f", "g", "h", "i", "j", "k", "l", "m",
                 "n", "o", "p", "q", "r", "s", "t", "u", "v", "w", "x", "y", "z"}
UpperLetters == {"A", "B", "C", "D", "E", "F", "G", "H", "I", "J", "K", "L", "M",
                 "N", "O", "P", "Q", "R", "S", "T", "U", "V", "W", "X", "Y", "Z"}
Digits == {"0", "1", "2", "3", "4", "5", "6", "7", "8", "9"}
Whitespace == {" "}

LowerOf ==
    ("A" :> "a") @@ ("B" :> "b") @@ ("C" :> "c") @@ ("D" :> "d") @@
    ("E" :> "e") @@ ("F" :> "f") @@ ("G" :> "g") @@ ("H" :> "h") @@
    ("I" :> "i") @@ ("J" :> "j") @@ ("K" :> "k") @@ ("L" :> "l") @@
    ("M" :> "m") @@ ("N" :> "n") @@ ("O" :> "o") @@ ("P" :> "p") @@
    ("Q" :> "q") @@ ("R" :> "r") @@ ("S" :> "s") @@ ("T" :> "t") @@
    ("U" :> "u") @@ ("V" :> "v") @@ ("W" :> "w") @@ ("X" :> "x") @@
    ("Y" :> "y") @@ ("Z" :> "z")

toLowerCaseChar(c) == IF c \in UpperLetters THEN LowerOf[c] ELSE c

toLowerCase(s) == [i \in 1..Len(s) |-> toLowerCaseChar(s[i])]

\* Array.prototype.join(' ')
JoinSpace(strs) ==
    LET RECURSIVE go(_, _)
        go(i, acc) ==
            IF i > Len(strs) THEN acc
            ELSE go(i + 1, IF i = 1 THEN strs[1] ELSE acc \o <<" ">> \o strs[i])
    IN go(1, <<>>)

\* The least member of a non-empty set of indices.
Least(S) == CHOOSE j \in S : \A k \in S : j <= k

\* String.prototype.split(re) for a separator regex of the shape /[class]+/ :
\* the pieces between maximal runs of separator characters, the empty pieces
\* at the two ends included. The class is `chars`, or with `negated` every
\* character outside `chars` (a class written [^...]).
Split(s, chars, negated) ==
    LET IsSep(c) == (c \in chars) # negated
        n == Len(s)
        \* the first separator at or after i, and the first character after
        \* the run of separators that starts at i; n + 1 when there is none
        sepFrom(i) == Least({j \in i..n : IsSep(s[j])} \cup {n + 1})
        pieceFrom(i) == Least({j \in i..n : ~IsSep(s[j])} \cup {n + 1})
        RECURSIVE go(_, _)
        go(i, acc) ==
            IF sepFrom(i) > n THEN Append(acc, SubSeq(s, i, n))
            ELSE go(pieceFrom(sepFrom(i)), Append(acc, SubSeq(s, i, sepFrom(i) - 1)))
    IN go(1, <<>>)

SeqRange(s) == {s[i] : i \in 1..Len(s)}

(***************************************************************************)
(* Keyword matcher                                                         *)
(***************************************************************************)
stopWords == {
    <<"a">>, <<"a","n">>, <<"t","h","e">>, <<"i","s">>, <<"a","r","e">>, <<"w","a","s">>,
    <<"w","e","r","e">>, <<"b","e">>, <<"b","e","e","n">>, <<"b","e","i","n","g">>,
    <<"h","a","v","e">>, <<"h","a","s">>, <<"h","a","d">>, <<"d","o">>,
    <<"d","o","e","s">>, <<"d","i","d">>, <<"w","i","l","l">>, <<"w","o","u","l","d">>,
    <<"c","o","u","l","d">>, <<"s","h","o","u","l","d">>, <<"m","a","y">>,
    <<"m","i","g","h","t">>, <<"m","u","s","t">>, <<"s","h","a","l","l">>, <<"c","a","n">>,
    <<"n","e","e","d">>, <<"t","o">>, <<"o","f">>, <<"i","n">>, <<"f","o","r">>,
    <<"o","n">>, <<"w","i","t","h">>, <<"a","t">>, <<"b","y">>, <<"f","r","o","m">>,
    <<"a","s">>, <<"i","n","t","o">>, <<"t","h","r","o","u","g","h">>,
    <<"d","u","r","i","n","g">>, <<"b","e","f","o","r","e">>, <<"a","f","t","e","r">>,
    <<"a","b","o","v","e">>, <<"b","e","l","o","w">>, <<"b","e","t","w","e","e","n">>,
    <<"u","n","d","e","r">>, <<"a","g","a","i","n">>, <<"f","u","r","t","h","e","r">>,
    <<"t","h","e","n">>, <<"o","n","c","e">>, <<"h","e","r","e">>, <<"t","h","e","r","e">>,
    <<"w","h","e","n">>, <<"w","h","e","r","e">>, <<"w","h","y">>, <<"h","o","w">>,
    <<"a","l","l">>, <<"e","a","c","h">>, <<"f","e","w">>, <<"m","o","r","e">>,
    <<"m","o","s","t">>, <<"o","t","h","e","r">>, <<"s","o","m","e">>, <<"s","u","c","h">>,
    <<"n","o">>, <<"n","o","r">>, <<"n","o","t">>, <<"o","n","l","y">>, <<"o","w","n">>,
    <<"s","a","m","e">>, <<"s","o">>, <<"t","h","a","n">>, <<"t","o","o">>,
    <<"v","e","r","y">>, <<"j","u","s","t">>, <<"a","n","d">>, <<"b","u","t">>,
    <<"o","r">>, <<"i","f">>, <<"b","e","c","a","u","s","e">>, <<"u","n","t","i","l">>,
    <<"w","h","i","l","e">>
}

MinKeywordLength == 3

extractKeywords(message) ==
    SelectSeq(Split(toLowerCase(message), LowerLetters \cup Digits \cup {"_"}, TRUE),
              LAMBDA word : Len(word) >= MinKeywordLength /\ word \notin stopWords)

\* The buggy variant that adds the list lengths instead of building the union.
calculateScoreNoDedup(k1, k2) ==
    IF Len(k1) = 0 \/ Len(k2) = 0 THEN [num |-> 0, den |-> 1]
    ELSE [num |-> Cardinality(SeqRange(k1) \cap SeqRange(k2)) * 100,
          den |-> Len(k1) + Len(k2)]

\* `matches` counts the words of set1 that set2 has, one pass over set1 in
\* insertion order; the result is (matches / union.size) * 100.
calculateScore(k1, k2) ==
    IF Len(k1) = 0 \/ Len(k2) = 0 THEN [num |-> 0, den |-> 1]
    ELSE LET set1 == SeqRange(k1)
             set2 == SeqRange(k2)
             RECURSIVE count(_, _)
             count(i, matches) ==
                 IF i > Len(k1) THEN matches
                 ELSE count(i + 1,
                            IF k1[i] \notin {k1[j] : j \in 1..(i - 1)} /\ k1[i] \in set2
                            THEN matches + 1 ELSE matches)
             union == set1 \cup set2
         IN [num |-> count(1, 0) * 100, den |-> Cardinality(union)]

ScoreGT(s, n) == s.num > n * s.den
ScoreEQ(s, n) == s.num = n * s.den
ScoreLess(a, b) == a.num * b.den < b.num * a.den
ScoreSame(a, b) == a.num * b.den = b.num * a.den

(***************************************************************************)
(* RegExp: the part of the ECMAScript pattern syntax that the playbook's   *)
(* matchers use here: literal characters, `\` before a syntax character,   *)
(* `.`, and the quantifiers `*`, `+`, `?` (each optionally lazy).          *)
(* new RegExp(p) throws a SyntaxError for a quantifier with nothing to     *)
(* repeat, a `\` at the end, an unterminated `[` or `(`, and an unmatched  *)
(* `)`. Alternation, classes, groups, anchors and braces are outside this  *)
(* part (RegExpSupported).                                                 *)
(***************************************************************************)
Quantifiers == {"*", "+", "?"}
SyntaxCharacters == {"^", "$", "\\", ".", "*", "+", "?", "(", ")", "[", "]", "{", "}", "|"}
LineTerminators == {"\n", "\r"}

\* [valid |-> FALSE] for a SyntaxError, else the atoms in order:
\* [any, ch, quant] with quant one | star | opt (x+ is x followed by x*).
RegExpParse(p) ==
    LET n == Len(p)
        escaped(i) == p[i] = "\\"
        \* the index after the atom at i, its quantifier, the index after that
        next(i) == IF escaped(i) THEN i + 2 ELSE i + 1
        q(i) == IF next(i) <= n /\ p[next(i)] \in Quantifiers THEN p[next(i)] ELSE "one"
        afterQ(i) == IF q(i) = "one" THEN next(i)
                     ELSE IF next(i) + 1 <= n /\ p[next(i) + 1] = "?"
                          THEN next(i) + 2 ELSE next(i) + 1
        bad(i) == \/ escaped(i) /\ i = n
                  \/ ~escaped(i) /\ p[i] \in Quantifiers \cup {"[", "(", ")"}
        with(i, k) == [any |-> (p[i] = "."),
                       ch |-> IF escaped(i) /\ i < n THEN p[i + 1] ELSE p[i],
                       quant |-> k]
        atomsAt(i) == CASE q(i) = "one" -> <<with(i, "one")>>
                        [] q(i) = "*" -> <<with(i, "star")>>
                        [] q(i) = "?" -> <<with(i, "opt")>>
                        [] q(i) = "+" -> <<with(i, "one"), with(i, "star")>>
        \* a character that stands for itself and has no quantifier, and the
        \* index after the run of such characters that starts at i
        plain(i) == p[i] \notin SyntaxCharacters /\ q(i) = "one"
        plainEnd(i) == Least({j \in i..n : ~plain(j)} \cup {n + 1})
        RECURSIVE parse(_, _)
        parse(i, atoms) ==
            IF i > n THEN [valid |-> TRUE, atoms |-> atoms]
            ELSE IF plain(i)
                 THEN parse(plainEnd(i),
                            atoms \o [k \in 1..(plainEnd(i) - i) |-> with(i + k - 1, "one")])
            ELSE IF bad(i) THEN [valid |-> FALSE, atoms |-> <<>>]
            ELSE parse(afterQ(i), atoms \o atomsAt(i))
    IN parse(1, <<>>)

\* The patterns this model gives a meaning to.
RegExpSupported(p) ==
    \A i \in 1..Len(p) :
        LET isEscaped == i > 1 /\ p[i - 1] = "\\" /\ (i = 2 \/ p[i - 2] # "\\")
        IN /\ (~isEscaped /\ p[i] \in {"[", "("}) =>
                  \A j \in (i + 1)..Len(p) : p[j] \notin {"]", ")"}
           /\ ~isEscaped => p[i] \notin {"|", "{", "}", "^", "$", "]"}
           /\ isEscaped => p[i] \in SyntaxCharacters \cup {"/", "-"}

RegExpValid(p) == RegExpParse(p).valid

\* RegExp.prototype.test: a match starting anywhere in the text. S is the
\* set of the positions a match of the atoms before k can end before.
RegExpTest(p, text, ignoreCase) ==
    LET atoms == RegExpParse(p).atoms
        n == Len(text)
        canon(c) == IF ignoreCase THEN toLowerCaseChar(c) ELSE c
        hit(a, c) == IF a.any THEN c \notin LineTerminators ELSE canon(a.ch) = canon(c)
        hits(k) == {pos \in 1..n : hit(atoms[k], text[pos])}
        step(k, S) ==
            CASE atoms[k].quant = "one" -> {pos + 1 : pos \in S \cap hits(k)}
              [] atoms[k].quant = "opt" -> S \cup {pos + 1 : pos \in S \cap hits(k)}
              [] atoms[k].quant = "star" ->
                     {end \in 1..(n + 1) :
                         \E pos \in S : pos <= end /\ (pos..(end - 1)) \subseteq hits(k)}
        \* the index after the run of atoms without a quantifier that starts
        \* at k, and the positions after a match of that run
        runEnd(k) == Least({j \in k..Len(atoms) : atoms[j].quant # "one"}
                               \cup {Len(atoms) + 1})
        afterRun(k, S) ==
            {pos + (runEnd(k) - k) : pos \in
                {pos \in S : /\ pos + (runEnd(k) - k) <= n + 1
                              /\ \A d \in 0..(runEnd(k) - k - 1) :
                                     hit(atoms[k + d], text[pos + d])}}
        RECURSIVE matchFrom(_, _)
        matchFrom(k, S) ==
            IF S = {} THEN FALSE
            ELSE IF k > Len(atoms) THEN TRUE
            ELSE IF atoms[k].quant = "one" THEN matchFrom(runEnd(k), afterRun(k, S))
            ELSE matchFrom(k + 1, step(k, S))
    IN matchFrom(1, 1..(n + 1))

(***************************************************************************)
(* Pattern records                                                         *)
(***************************************************************************)
Severities == {"low", "medium", "high"}

\* createPattern: the defaults, then the overrides; generatedId is the value
\* generatePatternId() returned for this call.
createPattern(generatedId, overrides) ==
    overrides @@
    [id |-> generatedId, fingerprint |-> <<>>, pattern |-> <<>>, severity |-> "medium",
     category |-> <<"g","e","n","e","r","a","l">>, title |-> <<>>, symptoms |-> <<>>,
     root_causes |-> <<>>, fixes |-> <<>>, feedback |-> [helpful |-> 0, harmful |-> 0]]

(***************************************************************************)
(* findMatchingPatterns                                                    *)
(***************************************************************************)
RegexScore == 100
KeywordThreshold == 20

\* The variant that compiles the matcher without the `i` flag.
regexMatchesCaseSensitive(pattern, message) ==
    RegExpValid(pattern.pattern) /\ RegExpTest(pattern.pattern, message, FALSE)

\* try { new RegExp(pattern.pattern, 'i').test(errorMessage) } catch { }
regexMatches(pattern, message) ==
    RegExpValid(pattern.pattern) /\ RegExpTest(pattern.pattern, message, TRUE)

\* The variant that accepts a keyword score of exactly the threshold.
keywordAcceptsInclusive(s) == s.num >= KeywordThreshold * s.den

\* if (score > 20)
keywordAccepts(s) == ScoreGT(s, KeywordThreshold)

patternKeywordsOf(pattern) ==
    extractKeywords(pattern.title \o <<" ">> \o JoinSpace(pattern.symptoms))

\* The loop body: the entries one pattern adds to `results` (none or one).
matchPattern(pattern, message) ==
    LET keywords == extractKeywords(message)
    IN IF regexMatches(pattern, message)
       THEN <<[pattern |-> pattern, score |-> [num |-> RegexScore, den |-> 1],
               matchedKeywords |-> keywords]>>
       ELSE LET patternKeywords == patternKeywordsOf(pattern)
                s == calculateScore(keywords, patternKeywords)
            IN IF keywordAccepts(s)
               THEN <<[pattern |-> pattern, score |-> s,
                       matchedKeywords |->
                           SelectSeq(keywords, LAMBDA k : k \in SeqRange(patternKeywords))]>>
               ELSE <<>>

\* The variant whose sort puts a later entry before earlier ones of equal score.
sortByScoreUnstable(rs) ==
    LET RECURSIVE go(_, _)
        go(i, sorted) ==
            IF i > Len(rs) THEN sorted
            ELSE LET before == SelectSeq(sorted, LAMBDA e : ScoreLess(rs[i].score, e.score))
                     after == SelectSeq(sorted, LAMBDA e : ~ScoreLess(rs[i].score, e.score))
                 IN go(i + 1, before \o <<rs[i]>> \o after)
    IN go(1, <<>>)

\* results.sort((a, b) => b.score - a.score): Array.prototype.sort is stable,
\* so each entry ends after every earlier entry whose score is not lower.
sortByScore(rs) ==
    LET RECURSIVE go(_, _)
        go(i, sorted) ==
            IF i > Len(rs) THEN sorted
            ELSE LET before == SelectSeq(sorted, LAMBDA e : ~ScoreLess(e.score, rs[i].score))
                     after == SelectSeq(sorted, LAMBDA e : ScoreLess(e.score, rs[i].score))
                 IN go(i + 1, before \o <<rs[i]>> \o after)
    IN go(1, <<>>)

\* Array.prototype.slice(0, n) for an integer n >= 0.
sliceTo(s, n) == SubSeq(s, 1, IF n < Len(s) THEN n ELSE Len(s))

allMatches(pb, message) ==
    LET RECURSIVE go(_, _)
        go(i, acc) ==
            IF i > Len(pb) THEN acc ELSE go(i + 1, acc \o matchPattern(pb[i], message))
    IN go(1, <<>>)

findMatchingPatterns(pb, message, lim) ==
    sliceTo(sortByScore(allMatches(pb, message)), lim)

\* Texts of the matching runs.
S_DISK == <<"D","I","S","K">>
S_lbracket == <<"[">>
S_lostAny == <<"l","o","s","t",".","*">>
S_fullDot == <<"f","u","l","l","\\",".">>
S_disk_full == <<"d","i","s","k"," ","f","u","l","l">>
S_conn_lost == <<"c","o","n","n"," ","l","o","s","t">>
S_conn_slow == <<"c","o","n","n"," ","s","l","o","w">>
S_the_slow_disk == <<"t","h","e"," ","s","l","o","w"," ","d","i","s","k">>
S_lost == <<"l","o","s","t">>
S_conn_lost_slow == <<"c","o","n","n"," ","l","o","s","t"," ","s","l","o","w">>
S_Disk_Full == <<"D","i","s","k"," ","F","u","l","l">>
S_disk_full_conn == <<"d","i","s","k"," ","f","u","l","l"," ","c","o","n","n">>
S_the == <<"t","h","e">>
S_Disk_fullStop == <<"D","i","s","k"," ","f","u","l","l",".">>
S_conn_lost_full == <<"c","o","n","n"," ","l","o","s","t"," ","f","u","l","l">>
S_slow == <<"s","l","o","w">>
S_Slow_disk == <<"S","l","o","w"," ","d","i","s","k">>
S_general == <<"g","e","n","e","r","a","l">>

(***************************************************************************)
(* reflect: fingerprints, categories and synthesized matchers              *)
(***************************************************************************)
WordChars == LowerLetters \cup UpperLetters \cup Digits \cup {"_"}
HexDashChars == Digits \cup {"a", "b", "c", "d", "e", "f", "A", "B", "C", "D", "E", "F", "-"}
UuidLength == 36
FingerprintLength == 100
MatcherPrefixLength == 50
TitleLength == 60

\* The index after the maximal run of characters of `class` starting at i
\* (i itself when s[i] is not in the class).
RunEnd(s, i, class) ==
    LET RECURSIVE go(_)
        go(j) == IF j <= Len(s) /\ s[j] \in class THEN go(j + 1) ELSE j
    IN go(i)

\* s.replace(re, replacement) for a global regex: the scan takes the leftmost
\* match at or after its position, copies the text before it, puts the
\* replacement for it and goes on after the match. For each regex, the index
\* after the match that starts at i, or 0 when none starts there:
\* /\d+\.\d+\.\d+\.\d+/ at i: four maximal digit runs joined by dots.
IpEnd(s, i) ==
    LET d1 == RunEnd(s, i, Digits)
        d2 == IF d1 > i /\ d1 <= Len(s) /\ s[d1] = "." THEN RunEnd(s, d1 + 1, Digits) ELSE 0
        d3 == IF d2 > d1 + 1 /\ d2 <= Len(s) /\ s[d2] = "." THEN RunEnd(s, d2 + 1, Digits) ELSE 0
        d4 == IF d3 > d2 + 1 /\ d3 <= Len(s) /\ s[d3] = "." THEN RunEnd(s, d3 + 1, Digits) ELSE 0
    IN IF d2 > 0 /\ d3 > 0 /\ d4 > d3 + 1 THEN d4 ELSE 0

\* /:\d+/ at i
PortEnd(s, i) ==
    IF s[i] = ":" /\ RunEnd(s, i + 1, Digits) > i + 1 THEN RunEnd(s, i + 1, Digits) ELSE 0

\* /\/[a-f0-9-]{36}/i at i
UuidEnd(s, i) ==
    IF /\ s[i] = "/"
       /\ i + UuidLength <= Len(s)
       /\ \A j \in (i + 1)..(i + UuidLength) : s[j] \in HexDashChars
    THEN i + UuidLength + 1 ELSE 0

\* /\b\d+\b/ at i: a maximal digit run with no word character on either side.
NumberEnd(s, i) ==
    LET e == RunEnd(s, i, Digits)
    IN IF /\ e > i
          /\ (i = 1 \/ s[i - 1] \notin WordChars)
          /\ (e > Len(s) \/ s[e] \notin WordChars)
       THEN e ELSE 0

\* /\s+/ at i
WhitespaceEnd(s, i) == IF s[i] \in Whitespace THEN RunEnd(s, i, Whitespace) ELSE 0

replaceIps(s) ==
    LET starts == {i \in 1..Len(s) : IpEnd(s, i) > 0}
        RECURSIVE go(_, _)
        go(i, acc) ==
            LET next == {j \in starts : j >= i}
            IN IF next = {} THEN acc \o SubSeq(s, i, Len(s))
               ELSE go(IpEnd(s, Least(next)),
                       acc \o SubSeq(s, i, Least(next) - 1) \o <<"<", "i", "p", ">">>)
    IN go(1, <<>>)

\* /:\d+/g -> ':<port>'
replacePorts(s) ==
    LET starts == {i \in 1..Len(s) : PortEnd(s, i) > 0}
        RECURSIVE go(_, _)
        go(i, acc) ==
            LET next == {j \in starts : j >= i}
            IN IF next = {} THEN acc \o SubSeq(s, i, Len(s))
               ELSE go(PortEnd(s, Least(next)),
                       acc \o SubSeq(s, i, Least(next) - 1)
                           \o <<":", "<", "p", "o", "r", "t", ">">>)
    IN go(1, <<>>)

\* /\/[a-f0-9-]{36}/gi -> '/<uuid>'
replaceUuids(s) ==
    LET starts == {i \in 1..Len(s) : UuidEnd(s, i) > 0}
        RECURSIVE go(_, _)
        go(i, acc) ==
            LET next == {j \in starts : j >= i}
            IN IF next = {} THEN acc \o SubSeq(s, i, Len(s))
               ELSE go(UuidEnd(s, Least(next)),
                       acc \o SubSeq(s, i, Least(next) - 1)
                           \o <<"/", "<", "u", "u", "i", "d", ">">>)
    IN go(1, <<>>)

\* /\b\d+\b/g -> '<n>'
replaceNumbers(s) ==
    LET starts == {i \in 1..Len(s) : NumberEnd(s, i) > 0}
        RECURSIVE go(_, _)
        go(i, acc) ==
            LET next == {j \in starts : j >= i}
            IN IF next = {} THEN acc \o SubSeq(s, i, Len(s))
               ELSE go(NumberEnd(s, Least(next)),
                       acc \o SubSeq(s, i, Least(next) - 1) \o <<"<", "n", ">">>)
    IN go(1, <<>>)

\* /\s+/g -> ' '
collapseWhitespace(s) ==
    LET starts == {i \in 1..Len(s) : WhitespaceEnd(s, i) > 0}
        RECURSIVE go(_, _)
        go(i, acc) ==
            LET next == {j \in starts : j >= i}
            IN IF next = {} THEN acc \o SubSeq(s, i, Len(s))
               ELSE go(WhitespaceEnd(s, Least(next)),
                       acc \o SubSeq(s, i, Least(next) - 1) \o <<" ">>)
    IN go(1, <<>>)

\* String.prototype.trim
trim(s) ==
    LET first == RunEnd(s, 1, Whitespace)
        RECURSIVE back(_)
        back(j) == IF j >= 1 /\ s[j] \in Whitespace THEN back(j - 1) ELSE j
    IN IF first > Len(s) THEN <<>> ELSE SubSeq(s, first, back(Len(s)))

generateFingerprint(message) ==
    sliceTo(trim(collapseWhitespace(replaceNumbers(replaceUuids(replacePorts(
        replaceIps(toLowerCase(message))))))), FingerprintLength)

\* String.prototype.includes
includes(s, sub) ==
    \E i \in 1..(Len(s) - Len(sub) + 1) : SubSeq(s, i, i + Len(sub) - 1) = sub

categorizError(message) ==
    LET lowerMsg == toLowerCase(message)
        has(w) == includes(lowerMsg, w)
    IN CASE has(<<"e","c","o","n","n","r","e","f","u","s","e","d">>)
              \/ has(<<"c","o","n","n","e","c","t","i","o","n">>) -> <<"n","e","t","w","o","r","k">>
         [] has(<<"p","e","r","m","i","s","s","i","o","n">>)
              \/ has(<<"e","a","c","c","e","s">>) -> <<"f","i","l","e","s","y","s","t","e","m">>
         [] has(<<"n","o","t"," ","f","o","u","n","d">>)
              \/ has(<<"e","n","o","e","n","t">>) -> <<"f","i","l","e","s","y","s","t","e","m">>
         [] has(<<"t","i","m","e","o","u","t">>) -> <<"n","e","t","w","o","r","k">>
         [] has(<<"d","a","t","a","b","a","s","e">>)
              \/ has(<<"s","q","l">>) -> <<"d","a","t","a","b","a","s","e">>
         [] has(<<"m","e","m","o","r","y">>)
              \/ has(<<"h","e","a","p">>) -> <<"m","e","m","o","r","y">>
         [] OTHER -> <<"g","e","n","e","r","a","l">>

\* message.replace(/[.*+?^${}()|[\]\\]/g, '\\$&')
escapeRegExp(s) ==
    LET special == {i \in 1..Len(s) : s[i] \in SyntaxCharacters}
        RECURSIVE go(_, _)
        go(i, acc) ==
            LET next == {j \in special : j >= i}
            IN IF next = {} THEN acc \o SubSeq(s, i, Len(s))
               ELSE go(Least(next) + 1,
                       acc \o SubSeq(s, i, Least(next) - 1) \o <<"\\", s[Least(next)]>>)
    IN go(1, <<>>)

\* The variant that leaves the message as it is.
synthesizeMatcherUnescaped(message) ==
    sliceTo(message, MatcherPrefixLength) \o <<".", "*">>

\* row.message.replace(...).slice(0, 50) + '.*'
synthesizeMatcher(message) ==
    sliceTo(escapeRegExp(message), MatcherPrefixLength) \o <<".", "*">>

synthesizeTitle(message) ==
    sliceTo(message, TitleLength)
        \o (IF Len(message) > TitleLength THEN <<".", ".", ".">> ELSE <<>>)

\* The variant that takes a count of exactly 10 as medium.
severityOfCountAbove(count) ==
    IF count > 10 THEN "high" ELSE IF count >= 5 THEN "medium" ELSE "low"

\* row.count >= 10 ? 'high' : row.count >= 5 ? 'medium' : 'low'
severityOfCount(count) ==
    IF count >= 10 THEN "high" ELSE IF count >= 5 THEN "medium" ELSE "low"

UnknownRootCause ==
    <<"U","n","k","n","o","w","n"," ","-"," ","i","n","v","e","s","t","i","g","a","t","e",
      " ","l","o","g","s">>

(***************************************************************************)
(* Bounds                                                                  *)
(***************************************************************************)
MaxKeywords == 3    \* longest keyword list given to calculateScore
MaxBook == 3        \* most patterns in a playbook given to findMatchingPatterns
MaxLimit == 3       \* largest limit given to findMatchingPatterns

SeqsUpTo(S, n) == UNION {[1..k -> S] : k \in 0..n}

\* Sequences of distinct members of S, at most n long.
DistinctSeqsUpTo(S, n) ==
    {q \in SeqsUpTo(S, n) : \A i, j \in 1..Len(q) : i # j => q[i] # q[j]}

(***************************************************************************)
(* SpecScore: calculateScore on keyword lists                              *)
(***************************************************************************)
ScoreWords == {<<"d","i","s","k">>, <<"f","u","l","l">>, <<"c","o","n","n">>}

InitScore ==
    /\ keywords1 \in SeqsUpTo(ScoreWords, MaxKeywords)
    /\ keywords2 \in SeqsUpTo(ScoreWords, MaxKeywords)
    /\ score = NotRun
    /\ MatchIdle /\ StoreIdle /\ ValidateIdle /\ EmbIdle /\ CallIdle

RunCalculateScore ==
    /\ score = NotRun
    /\ score' = Ran(calculateScore(keywords1, keywords2))
    /\ UNCHANGED <<keywords1, keywords2, matchVars, storeVars, validateVars, embVars, callVars>>

NextScore == RunCalculateScore

SpecScore == InitScore /\ [][NextScore]_vars

\* C4: calculateScore(a, b) lies in [0, 100], equals |A \cap B| / |A \cup B| * 100
\* over the de-duplicated sets A and B, is 0 when the lists share no keyword and
\* is 0 when either list is empty.
C4_ScoreIsJaccard ==
    score # NotRun =>
        LET A == SeqRange(keywords1)
            B == SeqRange(keywords2)
            s == score[1]
        IN /\ s.den > 0
           /\ 0 <= s.num /\ s.num <= 100 * s.den
           /\ (A # {} /\ B # {}) =>
                  s.num * Cardinality(A \cup B) = Cardinality(A \cap B) * 100 * s.den
           /\ A \cap B = {} => s.num = 0
           /\ (keywords1 = <<>> \/ keywords2 = <<>>) => s.num = 0

\* Lists with repeated keywords and a partial overlap have been scored.
C4_Witness ==
    /\ score # NotRun
    /\ Len(keywords1) > Cardinality(SeqRange(keywords1))
    /\ Len(keywords2) > Cardinality(SeqRange(keywords2))
    /\ 0 < score[1].num /\ score[1].num < 100 * score[1].den

(***************************************************************************)
(* SpecMatch: findMatchingPatterns on a playbook, a query and a limit      *)
(***************************************************************************)
MatchPool == {
    createPattern(1, [pattern |-> S_DISK, title |-> S_disk_full]),
    createPattern(2, [pattern |-> S_lbracket, title |-> S_conn_lost,
                      symptoms |-> <<S_conn_slow>>]),
    createPattern(3, [pattern |-> S_lostAny, title |-> S_the_slow_disk,
                      symptoms |-> <<S_lost>>]),
    createPattern(4, [pattern |-> S_fullDot, title |-> S_conn_lost_slow]),
    createPattern(5, [pattern |-> S_slow, title |-> S_Slow_disk, symptoms |-> <<S_lost>>]) }

MatchQueries ==
    {S_Disk_Full, S_disk_full_conn, S_conn_lost, S_the, S_Disk_fullStop, S_conn_lost_full}

InitMatch ==
    /\ playbook \in DistinctSeqsUpTo(MatchPool, MaxBook)
    /\ errorMessage \in MatchQueries
    /\ limit \in 0..MaxLimit
    /\ results = NotRun
    /\ ScoreIdle /\ StoreIdle /\ ValidateIdle /\ EmbIdle /\ CallIdle

RunFindMatchingPatterns ==
    /\ results = NotRun
    /\ results' = Ran(findMatchingPatterns(playbook, errorMessage, limit))
    /\ UNCHANGED <<playbook, errorMessage, limit, scoreVars, storeVars, validateVars, embVars, callVars>>

NextMatch == RunFindMatchingPatterns

SpecMatch == InitMatch /\ [][NextMatch]_vars

\* The playbook positions of the patterns, and what the run returned.
MatchIndexOf(pattern) == CHOOSE i \in 1..Len(playbook) : playbook[i] = pattern
MatcherHits(pattern) ==
    RegExpValid(pattern.pattern) /\ RegExpTest(pattern.pattern, errorMessage, TRUE)
\* |Q \cap K| * 100 over |Q \cup K| for the query's and the pattern's keyword sets.
JaccardOf(pattern) ==
    LET Q == SeqRange(extractKeywords(errorMessage))
        K == SeqRange(extractKeywords(pattern.title \o <<" ">> \o JoinSpace(pattern.symptoms)))
    IN [num |-> Cardinality(Q \cap K) * 100,
        den |-> IF Q \cup K = {} THEN 1 ELSE Cardinality(Q \cup K)]
ResultEntries(pattern) ==
    {i \in 1..Len(results[1]) : results[1][i].pattern = pattern}
Truncated == Len(results[1]) = limit

\* C1: a pattern whose matcher compiles and matches the query, ignoring case and
\* anywhere in the query, has score exactly 100 in the result, whatever its
\* keyword overlap; it is in the result unless the limit cut the list, and then
\* nothing but 100s are in the result.
C1_RegexMatchScores100 ==
    results # NotRun =>
        \A k \in 1..Len(playbook) :
            MatcherHits(playbook[k]) =>
                /\ \A i \in ResultEntries(playbook[k]) :
                       results[1][i].score.num = 100 * results[1][i].score.den
                /\ \/ ResultEntries(playbook[k]) # {}
                   \/ /\ Truncated
                      /\ \A i \in 1..Len(results[1]) :
                             results[1][i].score.num = 100 * results[1][i].score.den

\* A matcher that differs from the query in case and whose pattern shares no
\* keyword with the query is in the result.
C1_Witness ==
    /\ results # NotRun
    /\ \E i \in 1..Len(results[1]) :
           LET p == results[1][i].pattern
           IN /\ MatcherHits(p)
              /\ ~RegExpTest(p.pattern, errorMessage, FALSE)
    /\ \E i \in 1..Len(results[1]) :
           LET p == results[1][i].pattern
           IN MatcherHits(p) /\ JaccardOf(p).num = 0

\* C2: a pattern whose matcher is invalid or does not match is scored by the
\* Jaccard overlap of the query keywords and the keywords of title + symptoms;
\* the run completes, the pattern's entry carries that score, and the pattern is
\* in the result exactly when the score is above 20 (unless the limit cut it).
C2_KeywordFallback ==
    results # NotRun =>
        \A k \in 1..Len(playbook) :
            ~MatcherHits(playbook[k]) =>
                LET j == JaccardOf(playbook[k])
                IN /\ \A i \in ResultEntries(playbook[k]) :
                          /\ ScoreSame(results[1][i].score, j)
                          /\ j.num > 20 * j.den
                   /\ j.num > 20 * j.den =>
                          (ResultEntries(playbook[k]) # {} \/ Truncated)

\* An invalid matcher whose pattern scores above 20 is in the result, and a
\* pattern scoring exactly 20 is left out of a result the limit did not cut.
C2_Witness ==
    /\ results # NotRun
    /\ \E i \in 1..Len(results[1]) :
           /\ ~RegExpValid(results[1][i].pattern.pattern)
           /\ ScoreGT(results[1][i].score, 20)
    /\ ~Truncated
    /\ \E k \in 1..Len(playbook) :
           /\ ~MatcherHits(playbook[k])
           /\ JaccardOf(playbook[k]).num = 20 * JaccardOf(playbook[k]).den
           /\ ResultEntries(playbook[k]) = {}

\* C3: the result is in non-increasing score order, entries of equal score are
\* in playbook order, it has min(limit, number of matches) entries, and every
\* match left out ranks after every entry returned.
C3_SortedStableTruncated ==
    results # NotRun =>
        LET r == results[1]
            M == {k \in 1..Len(playbook) : matchPattern(playbook[k], errorMessage) # <<>>}
            Ranks(a, ia, b, ib) == ScoreLess(b, a) \/ (ScoreSame(a, b) /\ ia < ib)
        IN /\ \A i, j \in 1..Len(r) :
                  i < j => Ranks(r[i].score, MatchIndexOf(r[i].pattern),
                                 r[j].score, MatchIndexOf(r[j].pattern))
           /\ Len(r) = IF limit < Cardinality(M) THEN limit ELSE Cardinality(M)
           /\ \A i \in 1..Len(r) :
                  /\ MatchIndexOf(r[i].pattern) \in M
                  /\ <<r[i]>> = matchPattern(r[i].pattern, errorMessage)
           /\ \A m \in M :
                  ResultEntries(playbook[m]) = {} =>
                      \A i \in 1..Len(r) :
                          Ranks(r[i].score, MatchIndexOf(r[i].pattern),
                                matchPattern(playbook[m], errorMessage)[1].score, m)

\* The limit cut the list, two returned entries tie, and the entries with the
\* tie are not in the order of their scores by chance: a lower-scored pattern
\* precedes a higher-scored one in the playbook.
C3_Witness ==
    /\ results # NotRun
    /\ Len(allMatches(playbook, errorMessage)) > limit
    /\ \E i, j \in 1..Len(results[1]) :
           i < j /\ ScoreSame(results[1][i].score, results[1][j].score)
    /\ \E a, b \in 1..Len(playbook) :
           /\ a < b
           /\ matchPattern(playbook[a], errorMessage) # <<>>
           /\ matchPattern(playbook[b], errorMessage) # <<>>
           /\ ScoreLess(matchPattern(playbook[a], errorMessage)[1].score,
                        matchPattern(playbook[b], errorMessage)[1].score)
(***************************************************************************)
(* The playbook file and the invocations that load, change and save it     *)
(***************************************************************************)
IdRange == 2            \* generatePatternId draws from 0..999; here from 0..IdRange-1
MaxInvocations == 3     \* most invocations that load the playbook in a run

Procs == {"p1", "p2"}

NoFile == [fmt |-> "none", patterns |-> <<>>]

\* The CLI's loadPlaybook (YAML.parse reads YAML, and JSON as a YAML flow
\* mapping) and savePlaybook (YAML.stringify).
loadPlaybook(f) == IF f.fmt = "none" THEN <<>> ELSE f.patterns
savePlaybook(patterns) == [fmt |-> "yaml", patterns |-> patterns]

\* The MCP server's loadPlaybook and savePlaybook: parseSimpleYaml reads only
\* content that starts with `{`, and returns no patterns for anything else;
\* stringifySimpleYaml writes JSON.
mcpLoadPlaybook(f) == IF f.fmt = "json" THEN f.patterns ELSE <<>>
mcpSavePlaybook(patterns) == [fmt |-> "json", patterns |-> patterns]

\* The index of the first pattern with this id, 0 for undefined.
findPatternById(patterns, id) ==
    IF \E i \in 1..Len(patterns) : patterns[i].id = id
    THEN CHOOSE i \in 1..Len(patterns) :
             /\ patterns[i].id = id
             /\ \A j \in 1..(i - 1) : patterns[j].id # id
    ELSE 0

\* The variant that increments both counters.
recordFeedbackBoth(pattern, type) ==
    [pattern EXCEPT !.feedback = [helpful |-> @.helpful + 1, harmful |-> @.harmful + 1]]

\* pattern.feedback[type]++
recordFeedback(pattern, type) == [pattern EXCEPT !.feedback[type] = @ + 1]

\* The variant that saves the playbook it loaded when the id is unknown.
feedbackOutcomeAlwaysSaves(patterns, id, type) ==
    LET i == findPatternById(patterns, id)
    IN IF i = 0
       THEN [outcome |-> "not_found", saved |-> TRUE, patterns |-> patterns]
       ELSE [outcome |-> "ok", saved |-> TRUE,
             patterns |-> [patterns EXCEPT ![i] = recordFeedback(@, type)]]

\* markCommand and slsm_feedback after the load: find the pattern; report
\* `Pattern not found` and end, or record the feedback and save.
feedbackOutcome(patterns, id, type) ==
    LET i == findPatternById(patterns, id)
    IN IF i = 0
       THEN [outcome |-> "not_found", saved |-> FALSE, patterns |-> patterns]
       ELSE [outcome |-> "ok", saved |-> TRUE,
             patterns |-> [patterns EXCEPT ![i] = recordFeedback(@, type)]]

\* slsm_add_pattern: the fingerprint is the title in lower case with each run of
\* characters outside [a-z0-9] replaced by `-` and a `-` at either end removed.
fingerprintOfTitle(title) ==
    LET lower == toLowerCase(title)
        alnum == LowerLetters \cup Digits
        RECURSIVE dash(_, _)
        dash(i, acc) ==
            IF i > Len(lower) THEN acc
            ELSE IF lower[i] \in alnum THEN dash(i + 1, Append(acc, lower[i]))
                 ELSE dash(RunEnd(lower, i, UNION {{lower[j]} \ alnum : j \in 1..Len(lower)}),
                           Append(acc, "-"))
        d == dash(1, <<>>)
        \* .replace(/^-|-$/g, '')
        from == IF Len(d) > 0 /\ d[1] = "-" THEN 2 ELSE 1
        to == IF Len(d) > 0 /\ d[Len(d)] = "-" THEN Len(d) - 1 ELSE Len(d)
    IN SubSeq(d, from, to)

newPatternOf(generatedId, in) ==
    [id |-> generatedId, fingerprint |-> fingerprintOfTitle(in.title),
     pattern |-> in.pattern, severity |-> "medium", category |-> in.category,
     title |-> in.title, symptoms |-> <<>>, root_causes |-> <<>>, fixes |-> <<>>,
     feedback |-> [helpful |-> 0, harmful |-> 0]]

KnownThreshold == 80

\* reflectCommand's loop over the rows: each row is matched against the loaded
\* playbook with limit 1.
reflectMatches(patterns, rows) ==
    LET RECURSIVE go(_, _)
        go(k, acc) ==
            IF k > Len(rows) THEN acc
            ELSE go(k + 1, Append(acc, findMatchingPatterns(patterns, rows[k].message, 1)))
    IN go(1, <<>>)

\* The fields the loop derives from a row for the pattern it would create.
reflectOverrides(rows) ==
    LET RECURSIVE go(_, _)
        go(k, acc) ==
            IF k > Len(rows) THEN acc
            ELSE go(k + 1, Append(acc,
                    [fingerprint |-> IF rows[k].fingerprint # <<>> THEN rows[k].fingerprint
                                     ELSE generateFingerprint(rows[k].message),
                     pattern |-> synthesizeMatcher(rows[k].message),
                     severity |-> severityOfCount(rows[k].count),
                     category |-> categorizError(rows[k].message),
                     title |-> synthesizeTitle(rows[k].message),
                     symptoms |-> <<rows[k].message>>,
                     root_causes |-> <<UnknownRootCause>>,
                     fixes |-> <<>>]))
    IN go(1, <<>>)

\* The variant that takes a score of exactly the threshold as known.
isKnownInclusive(matches) ==
    Len(matches) > 0 /\ matches[1].score.num >= KnownThreshold * matches[1].score.den

\* const isKnown = matches.length > 0 && matches[0].score > 80
isKnown(matches) == Len(matches) > 0 /\ ScoreGT(matches[1].score, KnownThreshold)

\* A row that is not known gets a new pattern, whose id is generatedIds[k] for
\* row k. The result is the suggestions in row order.
reflectSuggestions(matches, overrides, generatedIds) ==
    [k \in 1..Len(matches) |->
        IF ~isKnown(matches[k])
        THEN [isNew |-> TRUE, pattern |-> createPattern(generatedIds[k], overrides[k])]
        ELSE [isNew |-> FALSE, pattern |-> matches[k][1].pattern]]

newPatternsOf(suggestions) ==
    LET RECURSIVE go(_, _)
        go(k, acc) ==
            IF k > Len(suggestions) THEN acc
            ELSE go(k + 1, IF suggestions[k].isNew
                           THEN Append(acc, suggestions[k].pattern) ELSE acc)
    IN go(1, <<>>)

\* History: which invocation created a record, and as which of its new records,
\* kept beside the record's fields.
Stamp(pattern, n, k) == [uid |-> <<n, k>>] @@ pattern
StampAll(patterns, n) == [k \in 1..Len(patterns) |-> Stamp(patterns[k], n, k)]

\* Inputs of the invocations.
S_disk_full_42 == <<"d","i","s","k"," ","f","u","l","l"," ","4","2">>
S_Conn_lost == <<"C","o","n","n"," ","l","o","s","t">>
S_conn_dash_lost == <<"c","o","n","n","-","l","o","s","t">>
S_Disk_trouble == <<"D","i","s","k"," ","t","r","o","u","b","l","e">>
S_storage == <<"s","t","o","r","a","g","e">>

AddInputs == {[title |-> S_Disk_trouble, pattern |-> S_DISK, category |-> S_storage]}

RowDiskFull == [message |-> S_disk_full_42, count |-> 3, fingerprint |-> <<>>]
RowConnLost == [message |-> S_Conn_lost, count |-> 12, fingerprint |-> S_conn_dash_lost]
\* The rows of a run are in descending order of count.
RowLists == {<<RowDiskFull>>, <<RowConnLost, RowDiskFull>>}

\* What the loop derives from the rows depends on the rows alone; it is
\* computed once for each row list.
OverridesOfRowLists == [rows \in RowLists |-> reflectOverrides(rows)]

FeedbackArgs == {"helpful", "harmful", "HELPFUL", "bogus"}
validFeedback == {"helpful", "harmful"}
\* feedback.toLowerCase() on the arguments above
normalizedFeedbackOf(feedback) == IF feedback = "HELPFUL" THEN "helpful" ELSE feedback

\* An invocation's arguments are fixed when it starts; nothing reads them before
\* the step that uses them, where they are drawn.
Idle == [via |-> "none", n |-> 0, patterns |-> <<>>]

\* What an invocation prints: the command, its outcome, and for feedback the
\* pattern id and the feedback type; `saved` is history, whether it called
\* savePlaybook.
Report(op, outcome, saved, id, type) ==
    [op |-> op, outcome |-> outcome, saved |-> saved, id |-> id, type |-> type]

Ids == 0..(IdRange - 1)

InitStore ==
    /\ file = NoFile
    /\ pc = [p \in Procs |-> "idle"]
    /\ inv = [p \in Procs |-> Idle]
    /\ last = Report("none", "none", FALSE, 0, "none")
    /\ started = 0
    /\ ScoreIdle /\ MatchIdle /\ ValidateIdle /\ EmbIdle /\ CallIdle

\* slsm mark <id> <feedback>: an argument other than helpful or harmful ends the
\* command before the playbook is read.
MarkRejected(p, feedback) ==
    /\ pc[p] = "idle"
    /\ normalizedFeedbackOf(feedback) \notin validFeedback
    /\ last' = Report("mark", "invalid_feedback", FALSE, 0, feedback)
    /\ UNCHANGED <<file, pc, inv, started, scoreVars, matchVars, validateVars, embVars, callVars>>

\* A CLI command (mark, reflect) reads the playbook file.
LoadCli(p) ==
    /\ pc[p] = "idle"
    /\ started < MaxInvocations
    /\ started' = started + 1
    /\ inv' = [inv EXCEPT ![p] =
                  [via |-> "cli", n |-> started + 1, patterns |-> loadPlaybook(file)]]
    /\ pc' = [pc EXCEPT ![p] = "loaded"]
    /\ UNCHANGED <<file, last, scoreVars, matchVars, validateVars, embVars, callVars>>

\* An MCP tool (slsm_feedback, slsm_add_pattern) reads the playbook file.
LoadMcp(p) ==
    /\ pc[p] = "idle"
    /\ started < MaxInvocations
    /\ started' = started + 1
    /\ inv' = [inv EXCEPT ![p] =
                  [via |-> "mcp", n |-> started + 1, patterns |-> mcpLoadPlaybook(file)]]
    /\ pc' = [pc EXCEPT ![p] = "loaded"]
    /\ UNCHANGED <<file, last, scoreVars, matchVars, validateVars, embVars, callVars>>

Ends(p) ==
    /\ pc' = [pc EXCEPT ![p] = "idle"]
    /\ inv' = [inv EXCEPT ![p] = Idle]
    /\ UNCHANGED <<started, scoreVars, matchVars, validateVars, embVars, callVars>>

\* slsm mark <id> <feedback> after the load.
MarkFinish(p, id, feedback) ==
    /\ pc[p] = "loaded" /\ inv[p].via = "cli"
    /\ normalizedFeedbackOf(feedback) \in validFeedback
    /\ LET type == normalizedFeedbackOf(feedback)
           r == feedbackOutcome(inv[p].patterns, id, type)
       IN /\ file' = IF r.saved THEN savePlaybook(r.patterns) ELSE file
          /\ last' = Report("mark", r.outcome, r.saved, id, type)
    /\ Ends(p)

\* The MCP tool slsm_feedback(id, helpful) after the load.
FeedbackFinish(p, id, helpful) ==
    /\ pc[p] = "loaded" /\ inv[p].via = "mcp"
    /\ LET type == IF helpful THEN "helpful" ELSE "harmful"
           r == feedbackOutcome(inv[p].patterns, id, type)
       IN /\ file' = IF r.saved THEN mcpSavePlaybook(r.patterns) ELSE file
          /\ last' = Report("slsm_feedback", r.outcome, r.saved, id, type)
    /\ Ends(p)

\* The MCP tool slsm_add_pattern after the load; generatedId is what
\* generatePatternId draws.
AddPatternFinish(p, in) ==
    /\ pc[p] = "loaded" /\ inv[p].via = "mcp"
    /\ \E generatedId \in Ids :
           /\ file' = mcpSavePlaybook(Append(inv[p].patterns,
                          Stamp(newPatternOf(generatedId, in), inv[p].n, 1)))
           /\ last' = Report("slsm_add_pattern", "ok", TRUE, generatedId, "none")
    /\ Ends(p)

\* The variant that saves in dry-run mode too.
reflectSavesAlways(dryRun, newPatterns) == Len(newPatterns) > 0

\* if (!options.dryRun && newPatterns.length > 0)
reflectSaves(dryRun, newPatterns) == ~dryRun /\ Len(newPatterns) > 0

\* What a reflect run prints, with its rows and its mode as history.
ReflectReport(saved, dryRun, rows) ==
    [dryRun |-> dryRun, rows |-> rows] @@ Report("reflect", "ok", saved, 0, "none")

\* slsm reflect [--dry-run] after the load, over the rows the log store
\* returned; generatedIds[k] is what generatePatternId draws for row k.
ReflectFinish(p, rows) ==
    /\ pc[p] = "loaded" /\ inv[p].via = "cli"
    /\ \E matches \in {reflectMatches(inv[p].patterns, rows)} :
          \E dryRun \in BOOLEAN, generatedIds \in [1..Len(rows) -> Ids] :
              LET overrides == OverridesOfRowLists[rows]
                  newPatterns ==
                      newPatternsOf(reflectSuggestions(matches, overrides, generatedIds))
                  saves == reflectSaves(dryRun, newPatterns)
              IN /\ file' = IF saves
                            THEN savePlaybook(inv[p].patterns \o StampAll(newPatterns, inv[p].n))
                            ELSE file
                 /\ last' = ReflectReport(saves, dryRun, rows)
    /\ Ends(p)

Next ==
    \E p \in Procs :
        \/ \E feedback \in FeedbackArgs : MarkRejected(p, feedback)
        \/ LoadCli(p)
        \/ LoadMcp(p)
        \/ \E id \in Ids, feedback \in FeedbackArgs : MarkFinish(p, id, feedback)
        \/ \E id \in Ids, helpful \in BOOLEAN : FeedbackFinish(p, id, helpful)
        \/ \E in \in AddInputs : AddPatternFinish(p, in)
        \/ \E rows \in RowLists : ReflectFinish(p, rows)

Spec == InitStore /\ [][Next]_vars

IdsOf(patterns) == {patterns[i].id : i \in 1..Len(patterns)}
FeedbackOps == {"mark", "slsm_feedback"}
\* The process whose invocation ends in this step.
EndsNow(p) == pc[p] = "loaded" /\ pc'[p] = "idle"

\* C5: no two records of the persisted playbook have the same id.
C5_IdsUnique ==
    \A i, j \in 1..Len(file.patterns) :
        i # j => file.patterns[i].id # file.patterns[j].id

\* C6: the persisted helpful and harmful counters of a record never decrease
\* while the record exists, whatever the interleaving of the invocations.
C6_CountersNeverDecrease ==
    [][\A i \in 1..Len(file.patterns), j \in 1..Len(file'.patterns) :
           file.patterns[i].uid = file'.patterns[j].uid =>
               /\ file'.patterns[j].feedback.helpful >= file.patterns[i].feedback.helpful
               /\ file'.patterns[j].feedback.harmful >= file.patterns[i].feedback.harmful]_vars

\* C7: feedback for an id that is not in the playbook the invocation loaded is
\* reported as not found, and the file is left as it is, with no save; and a
\* not-found report never comes with a change of the file.
C7_UnknownIdLeavesFile ==
    [][\A p \in Procs :
           (EndsNow(p) /\ last'.op \in FeedbackOps) =>
               /\ last'.id \notin IdsOf(inv[p].patterns) =>
                      (last'.outcome = "not_found" /\ ~last'.saved /\ file' = file)
               /\ last'.outcome = "not_found" =>
                      (last'.id \notin IdsOf(inv[p].patterns) /\ file' = file)]_vars

\* Feedback for an unknown id has been reported while the file holds records,
\* from the CLI and from the MCP tool.
C7_Witness ==
    /\ last.op \in FeedbackOps
    /\ last.outcome = "not_found"
    /\ Len(file.patterns) > 0
    /\ last.id \notin IdsOf(file.patterns)
    /\ \A p \in Procs : pc[p] = "idle"

\* C8: recording feedback adds exactly 1 to the counter the type names and
\* leaves the other counter, every other field of the pattern and every other
\* pattern as loaded.
C8_FeedbackIncrementsOne ==
    [][\A p \in Procs :
           (EndsNow(p) /\ last'.op \in FeedbackOps /\ last'.outcome = "ok") =>
               LET before == inv[p].patterns
                   after == file'.patterns
                   i == findPatternById(before, last'.id)
                   other == IF last'.type = "helpful" THEN "harmful" ELSE "helpful"
               IN /\ i # 0
                  /\ Len(after) = Len(before)
                  /\ \A k \in 1..Len(before) : k # i => after[k] = before[k]
                  /\ after[i].feedback[last'.type] = before[i].feedback[last'.type] + 1
                  /\ after[i].feedback[other] = before[i].feedback[other]
                  /\ DOMAIN after[i] = DOMAIN before[i]
                  /\ \A f \in DOMAIN before[i] \ {"feedback"} : after[i][f] = before[i][f]]_vars

\* Feedback has been recorded on one of two records, one counter at 1 and the
\* other at 0.
C8_Witness ==
    /\ last.op \in FeedbackOps
    /\ last.outcome = "ok"
    /\ Len(file.patterns) >= 2
    /\ \E i \in 1..Len(file.patterns) :
           /\ file.patterns[i].id = last.id
           /\ file.patterns[i].feedback[last.type] = 1
           /\ file.patterns[i].feedback.helpful + file.patterns[i].feedback.harmful = 1

\* The records of a playbook whose score for a message is above n.
ScoresAbove(patterns, message, n) ==
    {i \in 1..Len(patterns) :
        LET entry == matchPattern(patterns[i], message)
        IN entry # <<>> /\ ScoreGT(entry[1].score, n)}

\* The rows of a run that no record of the loaded playbook matches above 80.
newRowsOf(patterns, rows) ==
    SelectSeq(rows, LAMBDA row : ScoresAbove(patterns, row.message, 80) = {})

\* C17: a reflect run in dry-run mode leaves the file as it is; a run that
\* is not a dry run and has a new row saves the playbook it loaded with one
\* new record for each new row appended in row order, the loaded records
\* as they were; a run with no new row does not save.
C17_ReflectSavesAppended ==
    [][\A p \in Procs :
           (EndsNow(p) /\ last'.op = "reflect") =>
               \A newRows \in {newRowsOf(inv[p].patterns, last'.rows)} :
                   LET before == inv[p].patterns
                       after == file'.patterns
                   IN /\ last'.dryRun => (~last'.saved /\ file' = file)
                      /\ Len(newRows) = 0 => (~last'.saved /\ file' = file)
                      /\ (~last'.dryRun /\ Len(newRows) > 0) =>
                             /\ last'.saved
                             /\ Len(after) = Len(before) + Len(newRows)
                             /\ \A i \in 1..Len(before) : after[i] = before[i]
                             /\ \A j \in 1..Len(newRows) :
                                    after[Len(before) + j].symptoms = <<newRows[j].message>>]_vars

\* A run over two rows, one of them known, has saved: the file holds a
\* record another invocation created and, after it, the record of the new row.
C17_Witness ==
    /\ last.op = "reflect"
    /\ last.saved
    /\ Len(last.rows) = 2
    /\ Len(file.patterns) = 2
    /\ file.patterns[1].uid[1] # file.patterns[2].uid[1]
    /\ Len(newRowsOf(<<file.patterns[1]>>, last.rows)) = 1
    /\ file.patterns[2].symptoms = <<newRowsOf(<<file.patterns[1]>>, last.rows)[1].message>>

(***************************************************************************)
(* Validation: validatePattern and validatePlaybook on arbitrary data      *)
(***************************************************************************)
\* The values the YAML parser can hand to validatePlaybook.
Undefined == [t |-> "undefined"]
Null == [t |-> "null"]
Str(s) == [t |-> "string", v |-> s]
Num(n) == [t |-> "number", v |-> n]
Arr(a) == [t |-> "array", v |-> a]
Obj(fields) == [t |-> "object", v |-> fields]

\* typeof x
typeof(x) == IF x.t \in {"null", "array", "object"} THEN "object" ELSE x.t
\* x[field] for a field name that is not an index or a built-in property, and
\* x?.field: undefined where x has no such property.
Get(x, field) ==
    IF x.t = "object" /\ field \in DOMAIN x.v THEN x.v[field] ELSE Undefined
isArray(x) == x.t = "array"

S_low == <<"l","o","w">>
S_medium == <<"m","e","d","i","u","m">>
S_high == <<"h","i","g","h">>
S_critical == <<"c","r","i","t","i","c","a","l">>

requiredStrings == <<"id", "fingerprint", "pattern", "category", "title">>
validSeverities == <<S_low, S_medium, S_high>>
arrayFields == <<"symptoms", "root_causes", "fixes">>

\* `patterns[${index}]` and `${prefix}.${field}`
prefixOf(index) == <<"patterns[", index, "]">>
pathOf(index, field) == prefixOf(index) \o <<".", field>>
ValidationError(path, message) == [path |-> path, message |-> message]

RequiredMessage(field) == <<field, " is required and must be a non-empty string">>
SeverityMessage == <<"severity must be one of: ", "low, medium, high">>
ArrayMessage(field) == <<field, " must be an array">>
RegexMessage == <<"Invalid regex pattern">>
DuplicateMessage(id) == <<"Duplicate pattern ID: ", id>>

\* validatePattern(pattern, index): the errors of one element, in the order
\* the checks are made.
validatePattern(pattern, index) ==
    IF typeof(pattern) # "object" \/ pattern = Null
    THEN <<ValidationError(prefixOf(index), <<"Pattern must be an object">>)>>
    ELSE
    LET p == pattern
        RECURSIVE strings(_, _)
        strings(k, acc) ==
            IF k > Len(requiredStrings) THEN acc
            ELSE LET field == requiredStrings[k]
                 IN strings(k + 1,
                        IF typeof(Get(p, field)) # "string" \/ Get(p, field) = Str(<<>>)
                        THEN Append(acc, ValidationError(pathOf(index, field),
                                                         RequiredMessage(field)))
                        ELSE acc)
        severity ==
            IF Get(p, "severity") \notin {Str(validSeverities[k]) : k \in 1..Len(validSeverities)}
            THEN <<ValidationError(pathOf(index, "severity"), SeverityMessage)>>
            ELSE <<>>
        RECURSIVE arrays(_, _)
        arrays(k, acc) ==
            IF k > Len(arrayFields) THEN acc
            ELSE LET field == arrayFields[k]
                 IN arrays(k + 1,
                        IF ~isArray(Get(p, field))
                        THEN Append(acc, ValidationError(pathOf(index, field),
                                                         ArrayMessage(field)))
                        ELSE acc)
        fb == Get(p, "feedback")
        \* fb.helpful of an array or an object
        counter(name) == IF fb.t = "object" THEN Get(fb, name) ELSE Undefined
        feedback ==
            IF typeof(fb) # "object" \/ fb = Null
            THEN <<ValidationError(pathOf(index, "feedback"), <<"feedback must be an object">>)>>
            ELSE (IF typeof(counter("helpful")) # "number"
                  THEN <<ValidationError(pathOf(index, "feedback.helpful"),
                                         <<"helpful must be a number">>)>>
                  ELSE <<>>)
                 \o (IF typeof(counter("harmful")) # "number"
                     THEN <<ValidationError(pathOf(index, "feedback.harmful"),
                                            <<"harmful must be a number">>)>>
                     ELSE <<>>)
        regex ==
            IF typeof(Get(p, "pattern")) = "string" /\ ~RegExpValid(Get(p, "pattern").v)
            THEN <<ValidationError(pathOf(index, "pattern"), RegexMessage)>>
            ELSE <<>>
    IN strings(1, <<>>) \o severity \o arrays(1, <<>>) \o feedback \o regex

\* The variant that returns at the first record that has an error.
validatePlaybookFirstRecord(data) ==
    IF typeof(data) # "object" \/ data = Null
    THEN <<ValidationError(<<>>, <<"Playbook must be an object">>)>>
    ELSE IF ~isArray(Get(data, "patterns"))
    THEN <<ValidationError(<<"patterns">>, <<"patterns must be an array">>)>>
    ELSE
    LET patterns == Get(data, "patterns").v
        RECURSIVE loop(_)
        loop(i) ==
            IF i >= Len(patterns) THEN <<>>
            ELSE IF validatePattern(patterns[i + 1], i) # <<>>
                 THEN validatePattern(patterns[i + 1], i)
                 ELSE loop(i + 1)
    IN loop(0)

validatePlaybook(data) ==
    IF typeof(data) # "object" \/ data = Null
    THEN <<ValidationError(<<>>, <<"Playbook must be an object">>)>>
    ELSE IF ~isArray(Get(data, "patterns"))
    THEN <<ValidationError(<<"patterns">>, <<"patterns must be an array">>)>>
    ELSE
    LET patterns == Get(data, "patterns").v
        \* for (let i = 0; i < playbook.patterns.length; i++), with the Set `ids`
        RECURSIVE loop(_, _, _)
        loop(i, ids, acc) ==
            IF i >= Len(patterns) THEN acc
            ELSE LET pattern == patterns[i + 1]
                     id == Get(pattern, "id")
                     isString == typeof(id) = "string"
                     duplicate ==
                         IF isString /\ id.v \in ids
                         THEN <<ValidationError(pathOf(i, "id"), DuplicateMessage(id.v))>>
                         ELSE <<>>
                 IN loop(i + 1,
                         IF isString THEN ids \cup {id.v} ELSE ids,
                         acc \o duplicate \o validatePattern(pattern, i))
    IN loop(0, {}, <<>>)

VF(id, severity, pattern, title) ==
    [id |-> id, fingerprint |-> Str(S_lost), pattern |-> pattern, severity |-> severity,
     category |-> Str(S_general), title |-> title,
     symptoms |-> Arr(<<>>), root_causes |-> Arr(<<>>), fixes |-> Arr(<<>>),
     feedback |-> Obj([helpful |-> Num(0), harmful |-> Num(0)])]
Without(fields, names) == [f \in DOMAIN fields \ names |-> fields[f]]

RecA == Obj(VF(Str(<<"a">>), Str(S_low), Str(S_lostAny), Str(S_slow)))
RecB == Obj(VF(Str(<<"b">>), Str(S_high), Str(S_DISK), Str(S_slow)))
RecBadSeverity == Obj(VF(Str(<<"a">>), Str(S_critical), Str(S_DISK), Str(S_slow)))
RecNoId == Obj(Without(VF(Undefined, Str(S_medium), Str(S_DISK), Str(S_slow)), {"id"}))
RecEmptyTitle == Obj(VF(Str(<<"b">>), Str(S_low), Str(S_DISK), Str(<<>>)))
RecBadRegex == Obj(VF(Str(<<"a">>), Str(S_low), Str(S_lbracket), Str(S_slow)))
RecNumbers == Obj(VF(Num(1), Num(2), Num(3), Str(S_slow)))
RecBadFeedback ==
    Obj([VF(Str(<<"b">>), Str(S_low), Str(S_DISK), Str(S_slow))
            EXCEPT !.feedback = Obj([helpful |-> Str(<<"1">>)]), !.fixes = Null])
RecManyErrors ==
    Obj([Without(VF(Str(<<>>), Null, Str(S_lbracket), Str(S_slow)), {"severity", "symptoms"})
            EXCEPT !.fingerprint = Str(<<>>), !.feedback = Null])

ValidatePool ==
    {RecA, RecB, RecBadSeverity, RecNoId, RecEmptyTitle, RecBadRegex, RecNumbers,
     RecBadFeedback, RecManyErrors, Null, Str(S_slow), Arr(<<>>)}

MaxRecords == 2

Documents ==
    {Obj([patterns |-> Arr(ps)]) : ps \in SeqsUpTo(ValidatePool, MaxRecords)}
        \cup {Null, Str(S_slow), Arr(<<RecA>>), Obj([title |-> Str(S_slow)]),
              Obj([patterns |-> Obj([id |-> Str(<<"a">>)])])}

InitValidate ==
    /\ document \in Documents
    /\ errors = NotRun
    /\ ScoreIdle /\ MatchIdle /\ StoreIdle /\ EmbIdle /\ CallIdle

RunValidatePlaybook ==
    /\ errors = NotRun
    /\ errors' = Ran(validatePlaybook(document))
    /\ UNCHANGED <<document, scoreVars, matchVars, storeVars, embVars, callVars>>

NextValidate == RunValidatePlaybook

SpecValidate == InitValidate /\ [][NextValidate]_vars

\* How many entries of the error list es are the error e.
CountOf(es, e) == Cardinality({k \in 1..Len(es) : es[k] = e})
\* How many entries of es report a repeated id at path.
DuplicatesAt(es, path) ==
    Cardinality({k \in 1..Len(es) :
                    es[k].path = path /\ es[k].message[1] = "Duplicate pattern ID: "})
\* The element is something with fields: an object or an array.
HasFields(x) == x.t \in {"object", "array"}
IsText(x) == x.t = "string"
PatternList(d) == d.t = "object" /\ "patterns" \in DOMAIN d.v /\ d.v.patterns.t = "array"

\* C9: on a pattern list, validatePlaybook reports every violation of every
\* element, in element order: exactly one error for each required string
\* field that is missing, not a string or empty, one for a severity outside
\* low, medium, high, one for each element whose string id repeats the id of
\* an earlier element, one for a matcher that does not compile, and one for
\* an element that is not an object; and none where there is no violation.
C9_AllErrorsAccumulated ==
    (errors # NotRun /\ PatternList(document)) =>
        LET es == errors[1]
            ps == document.v.patterns.v
        IN /\ \A i \in 0..(Len(ps) - 1) :
                  LET r == ps[i + 1]
                      id == Get(r, "id")
                      matcher == Get(r, "pattern")
                  IN /\ \A k \in 1..Len(requiredStrings) :
                            LET f == requiredStrings[k]
                            IN CountOf(es, ValidationError(pathOf(i, f), RequiredMessage(f)))
                                   = IF HasFields(r) /\ (~IsText(Get(r, f)) \/ Get(r, f).v = <<>>)
                                     THEN 1 ELSE 0
                     /\ CountOf(es, ValidationError(pathOf(i, "severity"), SeverityMessage))
                            = IF HasFields(r)
                                 /\ ~(IsText(Get(r, "severity"))
                                        /\ Get(r, "severity").v \in {S_low, S_medium, S_high})
                              THEN 1 ELSE 0
                     /\ DuplicatesAt(es, pathOf(i, "id"))
                            = IF IsText(id) /\ \E j \in 1..i : Get(ps[j], "id") = id
                              THEN 1 ELSE 0
                     /\ DuplicatesAt(es, pathOf(i, "id"))
                            = CountOf(es, ValidationError(pathOf(i, "id"),
                                                          DuplicateMessage(IF IsText(id) THEN id.v ELSE <<>>)))
                     /\ CountOf(es, ValidationError(pathOf(i, "pattern"), RegexMessage))
                            = IF HasFields(r) /\ IsText(matcher) /\ ~RegExpValid(matcher.v)
                              THEN 1 ELSE 0
                     /\ CountOf(es, ValidationError(prefixOf(i), <<"Pattern must be an object">>))
                            = IF HasFields(r) THEN 0 ELSE 1
           /\ \A k, l \in 1..Len(es) : k < l => es[k].path[2] <= es[l].path[2]

\* The list of the repository's test, an invalid severity first and a repeated
\* id second, has been validated and both errors are in the result.
C9_Witness ==
    /\ document = Obj([patterns |-> Arr(<<RecBadSeverity, RecA>>)])
    /\ errors # NotRun
    /\ CountOf(errors[1], ValidationError(pathOf(0, "severity"), SeverityMessage)) = 1
    /\ CountOf(errors[1], ValidationError(pathOf(1, "id"), DuplicateMessage(<<"a">>))) = 1

(***************************************************************************)
(* Numbers                                                                 *)
(*                                                                         *)
(* The similarity code computes in IEEE 754 binary64: every division,      *)
(* product, sum and square root is the exact result rounded to the nearest *)
(* number with a 53-bit significand, ties to even. The numbers here are    *)
(* the same with a significand of SignificandBits bits, and none is        *)
(* negative: [m, e] is m * 2^e with 2^(bits-1) <= m < 2^bits, or 0.        *)
(***************************************************************************)
SignificandBits == 8

RECURSIVE Pow2(_)
Pow2(n) == IF n = 0 THEN 1 ELSE 2 * Pow2(n - 1)
RECURSIVE BitLength(_)
BitLength(n) == IF n = 0 THEN 0 ELSE 1 + BitLength(n \div 2)

FlZero == [m |-> 0, e |-> 0]

\* n * 2^e for an integer n > 0, rounded to nearest, ties to even.
FlRound(n, e) ==
    LET shift == BitLength(n) - SignificandBits
    IN IF shift <= 0 THEN [m |-> n * Pow2(0 - shift), e |-> e + shift]
       ELSE LET q == n \div Pow2(shift)
                r == n % Pow2(shift)
                half == Pow2(shift - 1)
                up == r > half \/ (r = half /\ q % 2 = 1)
                rounded == IF up THEN q + 1 ELSE q
            IN IF rounded = Pow2(SignificandBits)
               THEN [m |-> Pow2(SignificandBits - 1), e |-> e + shift + 1]
               ELSE [m |-> rounded, e |-> e + shift]

FlInt(n) == IF n = 0 THEN FlZero ELSE FlRound(n, 0)
FlOne == FlInt(1)

FlMul(a, b) ==
    IF a.m = 0 \/ b.m = 0 THEN FlZero ELSE FlRound(a.m * b.m, a.e + b.e)

FlAdd(a, b) ==
    IF a.m = 0 THEN b
    ELSE IF b.m = 0 THEN a
    ELSE LET hi == IF a.e >= b.e THEN a ELSE b
             lo == IF a.e >= b.e THEN b ELSE a
             d == hi.e - lo.e
         IN \* a term below a quarter of the last place does not change the sum
            IF d > SignificandBits + 2 THEN hi
            ELSE FlRound(hi.m * Pow2(d) + lo.m, lo.e)

\* a / b for b > 0: the quotient to two bits more than the significand, and
\* one more bit that says whether a remainder was cut.
FlDiv(a, b) ==
    IF a.m = 0 THEN FlZero
    ELSE LET n == a.m * Pow2(SignificandBits + 2)
             q == n \div b.m
             sticky == IF n % b.m = 0 THEN 0 ELSE 1
         IN FlRound(2 * q + sticky, a.e - b.e - (SignificandBits + 2) - 1)

\* The largest r with r * r <= n, between lo and hi.
RECURSIVE Isqrt(_, _, _)
Isqrt(n, lo, hi) ==
    IF lo >= hi THEN lo
    ELSE LET mid == (lo + hi + 1) \div 2
         IN IF mid * mid <= n THEN Isqrt(n, mid, hi) ELSE Isqrt(n, lo, mid - 1)

\* Math.sqrt
FlSqrt(a) ==
    IF a.m = 0 THEN FlZero
    ELSE LET s == IF (a.e + SignificandBits) % 2 = 0
                  THEN SignificandBits + 4 ELSE SignificandBits + 5
             n == a.m * Pow2(s)
             r == Isqrt(n, 0, Pow2(SignificandBits + 3))
             sticky == IF r * r = n THEN 0 ELSE 1
         IN FlRound(2 * r + sticky, ((a.e - s) \div 2) - 1)

FlLess(a, b) ==
    IF b.m = 0 THEN FALSE
    ELSE IF a.m = 0 THEN TRUE
    ELSE a.e < b.e \/ (a.e = b.e /\ a.m < b.m)
FlLessEq(a, b) == ~FlLess(b, a)

\* The natural logarithm of a / b in units of 2^-24, cut to an integer, for
\* the quotients (docCount + 1) / (termDocCount + 1) of up to five documents.
LogScale == 24
LogTable ==
    <<1, 1>> :> 0 @@ <<2, 1>> :> 11629079 @@ <<3, 1>> :> 18431655
    @@ <<4, 1>> :> 23258159 @@ <<5, 1>> :> 27001887 @@ <<6, 1>> :> 30060735
    @@ <<3, 2>> :> 6802575 @@ <<5, 2>> :> 15372807 @@ <<4, 3>> :> 4826504
    @@ <<5, 3>> :> 8570231 @@ <<5, 4>> :> 3743727 @@ <<6, 5>> :> 3058848

RECURSIVE GCD(_, _)
GCD(a, b) == IF b = 0 THEN a ELSE GCD(b, a % b)

\* Math.log(a / b) for integers a >= b >= 1.
FlLog(a, b) ==
    LET g == GCD(a, b)
        scaled == LogTable[<<a \div g, b \div g>>]
    IN IF scaled = 0 THEN FlZero ELSE FlRound(2 * scaled + 1, 0 - LogScale - 1)

(***************************************************************************)
(* The similarity store: embeddings.db and the EmbeddingsManager           *)
(*                                                                         *)
(* Math.log is taken of the exact quotient and rounded once.               *)
(***************************************************************************)
MinTermLength == 2

\* Array.prototype.includes, Array.prototype.indexOf >= 0
Contains(list, x) == \E i \in 1..Len(list) : list[i] = x
\* The elements of a list in the order of their first occurrence: the
\* insertion order of a Map or a Set filled from the list.
FirstOccurrences(list) ==
    LET RECURSIVE go(_, _)
        go(i, acc) ==
            IF i > Len(list) THEN acc
            ELSE go(i + 1, IF Contains(acc, list[i]) THEN acc ELSE Append(acc, list[i]))
    IN go(1, <<>>)

tokenize(text) ==
    LET lower == toLowerCase(text)
        kept == LowerLetters \cup Digits \cup {"_"} \cup Whitespace
        replaced == [i \in 1..Len(lower) |-> IF lower[i] \in kept THEN lower[i] ELSE " "]
    IN SelectSeq(Split(replaced, Whitespace, FALSE),
                 LAMBDA term : Len(term) >= MinTermLength)

\* The Map of computeTf as the list of its entries <<term, tf>>.
computeTf(terms) ==
    LET keys == FirstOccurrences(terms)
        docLength == Len(terms)
        count(term) == Cardinality({i \in 1..Len(terms) : terms[i] = term})
    IN [k \in 1..Len(keys) |-> <<keys[k], FlDiv(FlInt(count(keys[k])), FlInt(docLength))>>]

\* The Map of computeIdf as a function from the terms of the vocabulary.
computeIdf(documents, vocab) ==
    LET docCount == Len(documents)
        termDocCount(term) ==
            Cardinality({d \in 1..Len(documents) : Contains(documents[d], term)})
    IN [term \in vocab |-> FlAdd(FlLog(docCount + 1, termDocCount(term) + 1), FlOne)]

\* The sum of the squares of the values of the entries, added in entry order.
sumSquaresOf(entries) ==
    LET RECURSIVE go(_, _)
        go(k, acc) ==
            IF k > Len(entries) THEN acc
            ELSE go(k + 1, FlAdd(acc, FlMul(entries[k][2], entries[k][2])))
    IN go(1, FlZero)

\* A TfIdfVector: the Map `terms` as the list of its entries <<term, value>>
\* in insertion order, and the magnitude.
TfIdfVector(entries) == [terms |-> entries, magnitude |-> FlSqrt(sumSquaresOf(entries))]

\* idf.get(term) || 1
idfValueOf(idf, term) ==
    IF term \in DOMAIN idf /\ idf[term] # FlZero THEN idf[term] ELSE FlOne

toVector(tf, idf) ==
    TfIdfVector([k \in 1..Len(tf) |->
                    <<tf[k][1], FlMul(tf[k][2], idfValueOf(idf, tf[k][1]))>>])

\* Map.prototype.get on the entries: the value, or FlZero with found = FALSE.
EntryOf(entries, term) ==
    LET hits == {k \in 1..Len(entries) : entries[k][1] = term}
    IN IF hits = {} THEN [found |-> FALSE, value |-> FlZero]
       ELSE [found |-> TRUE, value |-> entries[CHOOSE k \in hits : TRUE][2]]

dotProductOf(v1, v2) ==
    LET RECURSIVE go(_, _)
        go(k, acc) ==
            IF k > Len(v1.terms) THEN acc
            ELSE LET value2 == EntryOf(v2.terms, v1.terms[k][1])
                 IN go(k + 1, IF value2.found
                              THEN FlAdd(acc, FlMul(v1.terms[k][2], value2.value))
                              ELSE acc)
    IN go(1, FlZero)

cosineSimilarity(v1, v2) ==
    IF v1.magnitude = FlZero \/ v2.magnitude = FlZero THEN FlZero
    ELSE FlDiv(dotProductOf(v1, v2), FlMul(v1.magnitude, v2.magnitude))

fixSteps(fixes) == [k \in 1..Len(fixes) |-> fixes[k].step]

patternToText(pattern) ==
    JoinSpace(<<pattern.title, pattern.category>> \o pattern.symptoms
                  \o pattern.root_causes \o <<JoinSpace(fixSteps(pattern.fixes))>>)

\* The documents of buildFromPatterns and the Set `vocabulary` it fills.
documentsOf(patterns) == [k \in 1..Len(patterns) |-> tokenize(patternToText(patterns[k]))]
vocabularyOf(patterns) ==
    UNION {SeqRange(documentsOf(patterns)[k]) : k \in 1..Len(patterns)}

\* One row of the table embeddings, and one of the table vocabulary. The
\* column vector holds JSON.stringify of the vector's entries, which JSON.parse
\* gives back as they were; rowid is the row's place in the table.
EmbeddingRow(vector, text, now) == [vector |-> vector, text |-> text, updated_at |-> now]
VocabularyRow(idfValue) == [doc_count |-> 1, idf |-> idfValue]

\* INSERT OR REPLACE of one row: a row with the key is deleted, every other
\* row stays, and the new row gets the rowid after the largest one.
InsertOrReplace(table, key, row) ==
    LET others == [k \in DOMAIN table \ {key} |-> table[k]]
        used == {others[k].rowid : k \in DOMAIN others}
        rowid == IF used = {} THEN 1 ELSE (CHOOSE r \in used : \A q \in used : q <= r) + 1
    IN (key :> ([rowid |-> rowid] @@ row)) @@ others

\* SELECT ... FROM table with no ORDER BY: the rows <<key, row>> in rowid order.
SelectAll(table) ==
    LET RECURSIVE go(_, _)
        go(left, acc) ==
            IF left = {} THEN acc
            ELSE LET k == CHOOSE x \in left : \A y \in left : table[x].rowid <= table[y].rowid
                 IN go(left \ {k}, Append(acc, <<k, table[k]>>))
    IN go(DOMAIN table, <<>>)

\* Map.prototype.set on a Map kept as the list of its entries: the value of a
\* key that is there is replaced in place, a new key goes to the end.
MapSet(entries, key, value) ==
    IF \E k \in 1..Len(entries) : entries[k][1] = key
    THEN [k \in 1..Len(entries) |->
             IF entries[k][1] = key THEN <<key, value>> ELSE entries[k]]
    ELSE Append(entries, <<key, value>>)
MapKeys(entries) == {entries[k][1] : k \in 1..Len(entries)}

\* buildFromPatterns(patterns) for a non-empty list, at the time `now`: the
\* manager's idf and vectors and the two tables after the call.
buildState(m, patterns, now, embeddingsTable, vocabularyTable) ==
    LET documents == documentsOf(patterns)
        idf == computeIdf(documents, vocabularyOf(patterns))
        \* for (let i = 0; i < patterns.length; i++)
        RECURSIVE store(_, _, _)
        store(i, vectors, table) ==
            IF i > Len(patterns) THEN [vectors |-> vectors, table |-> table]
            ELSE LET vector == toVector(computeTf(documents[i]), idf)
                 IN store(i + 1,
                          MapSet(vectors, patterns[i].id, vector),
                          InsertOrReplace(table, patterns[i].id,
                              EmbeddingRow(vector.terms, patternToText(patterns[i]), now)))
        stored == store(1, m.vectors, embeddingsTable)
    IN [manager |-> [idf |-> idf, vectors |-> stored.vectors],
        embeddings |-> stored.table,
        vocabulary |-> [term \in DOMAIN idf |-> VocabularyRow(idf[term])] @@ vocabularyTable]

\* A sort that puts the lower score first.
sortBySimilarityAscending(rs) ==
    LET RECURSIVE go(_, _)
        go(i, sorted) ==
            IF i > Len(rs) THEN sorted
            ELSE LET before == SelectSeq(sorted, LAMBDA e : ~FlLess(rs[i].score, e.score))
                     after == SelectSeq(sorted, LAMBDA e : FlLess(rs[i].score, e.score))
                 IN go(i + 1, before \o <<rs[i]>> \o after)
    IN go(1, <<>>)

\* results.sort((a, b) => b.score - a.score): stable, the higher score first.
sortBySimilarity(rs) ==
    LET RECURSIVE go(_, _)
        go(i, sorted) ==
            IF i > Len(rs) THEN sorted
            ELSE LET before == SelectSeq(sorted, LAMBDA e : ~FlLess(e.score, rs[i].score))
                     after == SelectSeq(sorted, LAMBDA e : FlLess(e.score, rs[i].score))
                 IN go(i + 1, before \o <<rs[i]>> \o after)
    IN go(1, <<>>)

\* findSimilar(query, limit): the manager after the loads from the database,
\* and the matches returned.
findSimilar(m, query, lim, embeddingsTable, vocabularyTable) ==
    LET idf == IF DOMAIN m.idf = {}
               THEN [term \in DOMAIN vocabularyTable |-> vocabularyTable[term].idf]
               ELSE m.idf
        rows == SelectAll(embeddingsTable)
        RECURSIVE load(_, _)
        load(k, vectors) ==
            IF k > Len(rows) THEN vectors
            ELSE load(k + 1, MapSet(vectors, rows[k][1], TfIdfVector(rows[k][2].vector)))
        vectors == IF Len(m.vectors) = 0 THEN load(1, <<>>) ELSE m.vectors
        queryVector == toVector(computeTf(tokenize(query)), idf)
        RECURSIVE scan(_, _)
        scan(k, found) ==
            IF k > Len(vectors) THEN found
            ELSE LET value == cosineSimilarity(queryVector, vectors[k][2])
                 IN scan(k + 1, IF FlLess(FlZero, value)
                                THEN Append(found, [patternId |-> vectors[k][1], score |-> value])
                                ELSE found)
    IN [manager |-> [idf |-> idf, vectors |-> vectors],
        matches |-> sliceTo(sortBySimilarity(scan(1, <<>>)), lim)]

S_io == <<"i","o">>
S_net == <<"n","e","t">>
S_Conn_lost_bang == <<"C","o","n","n"," ","l","o","s","t","!">>
S_a_b == <<"a"," ","b">>
S_x == <<"x">>
S_free_disk == <<"f","r","e","e"," ","d","i","s","k">>

EmbDiskFull ==
    createPattern(1, [title |-> S_Disk_Full, category |-> S_io, symptoms |-> <<S_disk_full>>,
                      fixes |-> <<[step |-> S_free_disk]>>])
\* The record with id 1 after an edit of its title.
EmbDiskSlow == createPattern(1, [title |-> S_Slow_disk, category |-> S_io])
EmbConnLost ==
    createPattern(2, [title |-> S_Conn_lost_bang, category |-> S_net,
                      root_causes |-> <<S_conn_lost>>])
\* A record whose text has no term of two characters.
EmbNoTerms == createPattern(3, [title |-> S_a_b, category |-> S_x])

EmbPool == {EmbDiskFull, EmbDiskSlow, EmbConnLost, EmbNoTerms}

S_disk_conn == <<"d","i","s","k"," ","c","o","n","n">>
QueryPool == {S_conn_lost, S_disk_conn, S_x}

MaxPatterns == 2
MaxBuilds == 2
MaxClock == 0
MaxInstances == 2
MaxSimilar == 2

NoManager == <<>>
NewManager == [idf |-> <<>>, vectors |-> <<>>]

InitEmb ==
    /\ embeddings = <<>>
    /\ vocabulary = <<>>
    /\ manager = NoManager
    /\ built = <<>>
    /\ similar = <<>>
    /\ instance = 0
    /\ clock = 0
    /\ ScoreIdle /\ MatchIdle /\ StoreIdle /\ ValidateIdle /\ CallIdle

\* new EmbeddingsManager(): initEmbeddingsDb creates the tables that do not
\* exist and keeps the ones that do.
Construct ==
    /\ manager = NoManager
    /\ instance < MaxInstances
    /\ manager' = <<NewManager>>
    /\ instance' = instance + 1
    /\ similar' = <<>>
    /\ UNCHANGED <<embeddings, vocabulary, built, clock>>
    /\ UNCHANGED <<scoreVars, matchVars, storeVars, validateVars, callVars>>

\* buildFromPatterns(patterns), with Date.now() not before its last reading.
BuildFromPatterns(patterns, now) ==
    /\ manager # NoManager
    /\ Len(built) < MaxBuilds
    /\ now >= clock
    /\ built' = Append(built, [patterns |-> patterns, by |-> instance])
    /\ similar' = <<>>
    /\ IF patterns = <<>>
       THEN UNCHANGED <<embeddings, vocabulary, manager, clock>>
       ELSE LET after == buildState(manager[1], patterns, now, embeddings, vocabulary)
            IN /\ manager' = <<after.manager>>
               /\ embeddings' = after.embeddings
               /\ vocabulary' = after.vocabulary
               /\ clock' = now
    /\ UNCHANGED instance
    /\ UNCHANGED <<scoreVars, matchVars, storeVars, validateVars, callVars>>

\* findSimilar(query, limit) for an integer limit >= 0.
FindSimilar(query, lim) ==
    /\ manager # NoManager
    /\ LET after == findSimilar(manager[1], query, lim, embeddings, vocabulary)
       IN /\ manager' = <<after.manager>>
          /\ similar' = <<[query |-> query, limit |-> lim, matches |-> after.matches]>>
    /\ UNCHANGED <<embeddings, vocabulary, built, instance, clock>>
    /\ UNCHANGED <<scoreVars, matchVars, storeVars, validateVars, callVars>>

\* close(), and the end of the process.
Close ==
    /\ manager # NoManager
    /\ manager' = NoManager
    /\ similar' = <<>>
    /\ UNCHANGED <<embeddings, vocabulary, built, instance, clock>>
    /\ UNCHANGED <<scoreVars, matchVars, storeVars, validateVars, callVars>>

NextEmb ==
    \/ Construct
    \/ \E patterns \in SeqsUpTo(EmbPool, MaxPatterns), now \in 0..MaxClock :
           BuildFromPatterns(patterns, now)
    \/ \E query \in QueryPool, lim \in 0..MaxSimilar : FindSimilar(query, lim)
    \/ Close

SpecEmb == InitEmb /\ [][NextEmb]_vars

\* C10: after a build from a non-empty list, the table embeddings has a row
\* for exactly the ids of the list and the table vocabulary a row for
\* exactly the terms of the list's vocabulary.
C10_StoreIsLastBuild ==
    (built # <<>> /\ built[Len(built)].patterns # <<>>) =>
        LET patterns == built[Len(built)].patterns
        IN /\ DOMAIN embeddings = IdsOf(patterns)
           /\ DOMAIN vocabulary = vocabularyOf(patterns)

\* The last buildFromPatterns call, when the manager that made it is the one
\* that answered the last findSimilar.
lastBuild == built[Len(built)]
AnsweredAfterBuild ==
    /\ similar # <<>>
    /\ built # <<>>
    /\ lastBuild.by = instance

\* The vector buildFromPatterns(patterns) computes for the record with this
\* id, and the vector findSimilar computes for a query under the idf of
\* patterns.
idfOf(patterns) == computeIdf(documentsOf(patterns), vocabularyOf(patterns))
regeneratedVector(patterns, id) ==
    LET k == CHOOSE i \in 1..Len(patterns) :
                 /\ patterns[i].id = id
                 /\ \A j \in (i + 1)..Len(patterns) : patterns[j].id # id
    IN toVector(computeTf(tokenize(patternToText(patterns[k]))), idfOf(patterns))
queryVectorOf(query, idf) == toVector(computeTf(tokenize(query)), idf)

\* C11: after the pattern set changed and buildFromPatterns was called with
\* the new non-empty list P, every patternId findSimilar returns is the id of
\* a record of P, and its score is the similarity of the query to the vector
\* of that record regenerated under the idf of P.
C11_RebuiltIndexAnswersFromP ==
    (/\ AnsweredAfterBuild
     /\ Len(built) >= 2
     /\ lastBuild.patterns # <<>>
     /\ IdsOf(built[Len(built) - 1].patterns) # IdsOf(lastBuild.patterns)) =>
        LET P == lastBuild.patterns
            matches == similar[1].matches
        IN \A k \in 1..Len(matches) :
               /\ matches[k].patternId \in IdsOf(P)
               /\ matches[k].score =
                      cosineSimilarity(queryVectorOf(similar[1].query, manager[1].idf),
                                       regeneratedVector(P, matches[k].patternId))

\* C12: when the last buildFromPatterns call of the answering manager had
\* the empty list, findSimilar returns no matches, whatever the tables hold.
C12_EmptySetGivesNoMatches ==
    (AnsweredAfterBuild /\ lastBuild.patterns = <<>>) => similar[1].matches = <<>>

\* The score findSimilar gives the k-th stored vector for the last query.
storedScore(k) ==
    cosineSimilarity(queryVectorOf(similar[1].query, manager[1].idf), manager[1].vectors[k][2])
Stored == 1..Len(manager[1].vectors)

\* C13: findSimilar returns at most limit entries, each the id and the score
\* of a stored vector whose score is above 0, in non-increasing order of
\* score, and a stored vector with a score above 0 is left out only when
\* limit entries with scores at least as high are returned.
C13_PositiveSortedTruncated ==
    similar # <<>> =>
        LET matches == similar[1].matches
        IN /\ Len(matches) <= similar[1].limit
           /\ \A k \in 1..Len(matches) :
                  /\ FlLess(FlZero, matches[k].score)
                  /\ \E j \in Stored :
                         /\ manager[1].vectors[j][1] = matches[k].patternId
                         /\ storedScore(j) = matches[k].score
                  /\ \A i \in 1..(k - 1) :
                         /\ ~FlLess(matches[i].score, matches[k].score)
                         /\ matches[i].patternId # matches[k].patternId
           /\ \A j \in Stored :
                  FlLess(FlZero, storedScore(j)) =>
                      \/ \E k \in 1..Len(matches) :
                             matches[k].patternId = manager[1].vectors[j][1]
                      \/ /\ Len(matches) = similar[1].limit
                         /\ \A k \in 1..Len(matches) :
                                ~FlLess(matches[k].score, storedScore(j))

\* A query with a limit of 1 that two stored vectors answer with different
\* scores above 0 and a third with 0: the better one alone is returned.
C13_Witness ==
    /\ similar # <<>>
    /\ similar[1].limit = 1
    /\ Len(similar[1].matches) = 1
    /\ \E j \in Stored :
           /\ FlLess(FlZero, storedScore(j))
           /\ FlLess(storedScore(j), similar[1].matches[1].score)
    /\ \E j \in Stored : storedScore(j) = FlZero

\* C14: after buildFromPatterns(P) with a non-empty P, a manager constructed
\* anew over the same tables answers every query and limit with the same
\* list of ids and scores as the manager that built.
C14_FreshManagerAnswersAsBuilder ==
    (/\ manager # NoManager
     /\ built # <<>>
     /\ lastBuild.by = instance
     /\ lastBuild.patterns # <<>>) =>
        \A query \in QueryPool, lim \in 0..MaxSimilar :
            findSimilar(NewManager, query, lim, embeddings, vocabulary).matches
                = findSimilar(manager[1], query, lim, embeddings, vocabulary).matches

(***************************************************************************)
(* cosineSimilarity on its own: two documents are made into vectors as     *)
(* buildFromPatterns and findSimilar make them, under the idf of the two   *)
(* documents or under an idf that knows none of their terms.               *)
(***************************************************************************)
S_disk == <<"d","i","s","k">>
S_full == <<"f","u","l","l">>
S_conn == <<"c","o","n","n">>
TermPool == {S_disk, S_full, S_conn}
MaxTerms == 3

idfOfDocuments(documents) ==
    computeIdf(documents, UNION {SeqRange(documents[k]) : k \in 1..Len(documents)})

InitCosine ==
    /\ \E terms1 \in SeqsUpTo(TermPool, MaxTerms), terms2 \in SeqsUpTo(TermPool, MaxTerms),
          weighted \in BOOLEAN :
           LET idf == IF weighted THEN idfOfDocuments(<<terms1, terms2>>) ELSE <<>>
           IN arguments = <<toVector(computeTf(terms1), idf), toVector(computeTf(terms2), idf)>>
    /\ returned = NotRun
    /\ ScoreIdle /\ MatchIdle /\ StoreIdle /\ ValidateIdle /\ EmbIdle

\* cosineSimilarity(v1, v2), cosineSimilarity(v2, v1) and cosineSimilarity(v1, v1).
RunCosineSimilarity ==
    /\ returned = NotRun
    /\ returned' = Ran([forward |-> cosineSimilarity(arguments[1], arguments[2]),
                        backward |-> cosineSimilarity(arguments[2], arguments[1]),
                        self |-> cosineSimilarity(arguments[1], arguments[1])])
    /\ UNCHANGED <<arguments, scoreVars, matchVars, storeVars, validateVars, embVars>>

NextCosine == RunCosineSimilarity

SpecCosine == InitCosine /\ [][NextCosine]_vars

\* C15: cosineSimilarity gives the same value for (v1, v2) and (v2, v1), a
\* value from 0 to 1, the value 1 for a vector of magnitude other than 0
\* with itself, and 0 when a magnitude is 0.
C15_SymmetricBoundedSelfOne ==
    returned # NotRun =>
        LET r == returned[1]
        IN /\ r.forward = r.backward
           /\ FlLessEq(FlZero, r.forward) /\ FlLessEq(r.forward, FlOne)
           /\ arguments[1].magnitude # FlZero => r.self = FlOne
           /\ (arguments[1].magnitude = FlZero \/ arguments[2].magnitude = FlZero) =>
                  r.forward = FlZero

(***************************************************************************)
(* reflectCommand's loop on its own: the rows of the query are classified  *)
(* against the playbook that was loaded.                                   *)
(***************************************************************************)
S_conn_lost_disk_full == S_conn_lost \o <<" ">> \o S_disk_full
S_conn_lost_slow_disk_full == S_conn_lost_slow \o <<" ">> \o S_disk_full

\* Records whose matcher does not compile are matched by their keywords.
PatFour == createPattern(1, [pattern |-> S_lbracket, title |-> S_conn_lost_disk_full])
PatFive == createPattern(2, [pattern |-> S_lbracket, title |-> S_conn_lost_slow,
                             symptoms |-> <<S_disk_full>>])
PatRegex == createPattern(3, [pattern |-> S_DISK, title |-> S_Disk_trouble])
PatConn == createPattern(4, [pattern |-> S_lbracket, title |-> S_conn_lost])
ReflectPool == {PatFour, PatFive, PatRegex, PatConn}

RowFive == [message |-> S_conn_lost_slow_disk_full, count |-> 12, fingerprint |-> <<>>]
RowPool == {RowFive, RowConnLost, RowDiskFull}
MaxRows == 2
\* ORDER BY count DESC over groups: no row twice, counts not increasing.
ReflectRows ==
    {rows \in DistinctSeqsUpTo(RowPool, MaxRows) :
        \A k \in 1..(Len(rows) - 1) : rows[k].count >= rows[k + 1].count}

InitReflect ==
    /\ arguments \in [patterns : DistinctSeqsUpTo(ReflectPool, MaxBook), rows : ReflectRows]
    /\ returned = NotRun
    /\ ScoreIdle /\ MatchIdle /\ StoreIdle /\ ValidateIdle /\ EmbIdle

\* The loop over the rows, with the ids generatePatternId draws.
RunReflect ==
    /\ returned = NotRun
    /\ \E generatedIds \in [1..Len(arguments.rows) -> Ids] :
           returned' = Ran(reflectSuggestions(reflectMatches(arguments.patterns, arguments.rows),
                                              reflectOverrides(arguments.rows), generatedIds))
    /\ UNCHANGED <<arguments, scoreVars, matchVars, storeVars, validateVars, embVars>>

NextReflect == RunReflect

SpecReflect == InitReflect /\ [][NextReflect]_vars

\* C16: every row gets one classification; a row is known exactly when the
\* best match of findMatchingPatterns(playbook, message, 1) scores above 80;
\* a known row carries the matched record of the playbook as it is, a new
\* row a created record; new rows and known rows add up to the rows.
C16_KnownIffBestAbove80 ==
    returned # NotRun =>
        LET suggestions == returned[1]
            rows == arguments.rows
            patterns == arguments.patterns
            newRows == {k \in 1..Len(suggestions) : suggestions[k].isNew}
            knownRows == {k \in 1..Len(suggestions) : ~suggestions[k].isNew}
        IN /\ Len(suggestions) = Len(rows)
           /\ Cardinality(newRows) + Cardinality(knownRows) = Len(rows)
           /\ \A k \in 1..Len(rows) :
                  LET best == findMatchingPatterns(patterns, rows[k].message, 1)
                  IN /\ suggestions[k].isNew <=> ScoresAbove(patterns, rows[k].message, 80) = {}
                     /\ ~suggestions[k].isNew =>
                            /\ suggestions[k].pattern = best[1].pattern
                            /\ \E i \in 1..Len(patterns) : patterns[i] = suggestions[k].pattern
                     /\ suggestions[k].isNew =>
                            /\ suggestions[k].pattern.symptoms = <<rows[k].message>>
                            /\ suggestions[k].pattern.feedback = [helpful |-> 0, harmful |-> 0]

\* A run with a row whose best match scores exactly 80, classified as new,
\* beside a known row.
C16_Witness ==
    /\ returned # NotRun
    /\ Len(arguments.rows) = 2
    /\ \E k \in 1..2 :
           LET best == findMatchingPatterns(arguments.patterns, arguments.rows[k].message, 1)
           IN /\ best # <<>>
              /\ ScoreEQ(best[1].score, 80)
              /\ returned[1][k].isNew
    /\ \E k \in 1..2 : ~returned[1][k].isNew

(***************************************************************************)
(* generateFingerprint on its own: short messages over a small alphabet,   *)
(* and messages whose length is near the 100 characters of the cut.        *)
(***************************************************************************)
FingerprintChars == {"a", "B", "1", " ", ".", ":"}
MaxShort == 3
MaxPad == 4
Filler(n) == [i \in 1..n |-> "a"]
Tails == SeqsUpTo(FingerprintChars, MaxShort)
LongMessages ==
    {Filler(n) \o tail : n \in (FingerprintLength - MaxPad)..FingerprintLength, tail \in Tails}

InitFingerprint ==
    /\ arguments \in Tails \cup LongMessages
    /\ returned = NotRun
    /\ ScoreIdle /\ MatchIdle /\ StoreIdle /\ ValidateIdle /\ EmbIdle

\* generateFingerprint(message), and generateFingerprint of that.
RunGenerateFingerprint ==
    /\ returned = NotRun
    /\ returned' = Ran([once |-> generateFingerprint(arguments),
                        twice |-> generateFingerprint(generateFingerprint(arguments))])
    /\ UNCHANGED <<arguments, scoreVars, matchVars, storeVars, validateVars, embVars>>

NextFingerprint == RunGenerateFingerprint

SpecFingerprint == InitFingerprint /\ [][NextFingerprint]_vars

\* C18: generateFingerprint(generateFingerprint(x)) = generateFingerprint(x)
\* for every message x, cut at 100 characters or not.
C18_FingerprintIdempotent ==
    returned # NotRun => returned[1].twice = returned[1].once

(***************************************************************************)
(* slsm context <error> [--service s] [--limit n] and the tool             *)
(* slsm_context, on a playbook whose records have feedback.                *)
(***************************************************************************)
\* results.filter(r => r.pattern.category.toLowerCase().includes(service.toLowerCase()))
filterByService(rs, service) ==
    SelectSeq(rs, LAMBDA r : includes(toLowerCase(r.pattern.category), toLowerCase(service)))

\* contextCommand after the load; NoService stands for the option left out
\* (and for the tool slsm_context, which has no such option).
NoService == <<>>
contextResults(patterns, errorMessageArg, limitArg, service) ==
    LET found == findMatchingPatterns(patterns, errorMessageArg, limitArg)
    IN IF service # NoService THEN filterByService(found, service) ELSE found

CtxHelpful ==
    createPattern(1, [pattern |-> S_DISK, title |-> S_Disk_trouble, category |-> S_io,
                      feedback |-> [helpful |-> 3, harmful |-> 0]])
CtxHarmful ==
    createPattern(2, [pattern |-> S_disk_full, title |-> S_Disk_Full, category |-> S_storage,
                      feedback |-> [helpful |-> 0, harmful |-> 3]])
CtxMixed ==
    createPattern(3, [pattern |-> S_lbracket, title |-> S_disk_full, category |-> S_io,
                      feedback |-> [helpful |-> 1, harmful |-> 1]])
CtxUnrated == createPattern(4, [pattern |-> S_lbracket, title |-> S_conn_lost, category |-> S_net])
ContextPool == {CtxHelpful, CtxHarmful, CtxMixed, CtxUnrated}
ContextQueries == {S_Disk_Full, S_conn_lost, S_disk_full_conn}
ContextServices == {NoService, S_io, S_storage}

InitContext ==
    /\ arguments \in [patterns : DistinctSeqsUpTo(ContextPool, MaxBook),
                      error : ContextQueries, limit : 1..MaxLimit, service : ContextServices]
    /\ returned = NotRun
    /\ ScoreIdle /\ MatchIdle /\ StoreIdle /\ ValidateIdle /\ EmbIdle

RunContext ==
    /\ returned = NotRun
    /\ returned' = Ran(contextResults(arguments.patterns, arguments.error,
                                      arguments.limit, arguments.service))
    /\ UNCHANGED <<arguments, scoreVars, matchVars, storeVars, validateVars, embVars>>

NextContext == RunContext

SpecContext == InitContext /\ [][NextContext]_vars

\* helpful / (helpful + harmful) of a is below that of b; both have feedback.
RatioBelow(a, b) ==
    /\ a.helpful + a.harmful > 0
    /\ b.helpful + b.harmful > 0
    /\ a.helpful * (b.helpful + b.harmful) < b.helpful * (a.helpful + a.harmful)

\* C19: of two records in the list returned for an error lookup that have
\* the same match score, the one with the lower ratio
\* helpful / (helpful + harmful) is not ranked above the other.
C19_PoorFeedbackRanksLower ==
    returned # NotRun =>
        \A i, j \in 1..Len(returned[1]) :
            (/\ i < j
             /\ ScoreSame(returned[1][i].score, returned[1][j].score)) =>
                ~RatioBelow(returned[1][i].pattern.feedback, returned[1][j].pattern.feedback)

(***************************************************************************)
(* savePlaybook and loadPlaybook as a conversion. YAML.stringify and       *)
(* YAML.parse are the package `yaml`, which the repository imports and     *)
(* does not contain: they are modelled from the YAML 1.2 core schema the   *)
(* package implements. A document is a tree of nodes; a string is written  *)
(* as a plain scalar unless reading the plain text would give something    *)
(* else, and then in double quotes; a plain scalar is read by the core     *)
(* schema's rules, a quoted one is the string it holds.                    *)
(***************************************************************************)
Bool(b) == [t |-> "boolean", v |-> b]
DigitChars == <<"0", "1", "2", "3", "4", "5", "6", "7", "8", "9">>
digitValue(c) == CHOOSE d \in 0..9 : DigitChars[d + 1] = c

\* String(n) for an integer n >= 0, and the integer a run of digits names.
numberText(n) ==
    LET RECURSIVE go(_, _)
        go(m, acc) == IF m < 10 THEN <<DigitChars[m + 1]>> \o acc
                      ELSE go(m \div 10, <<DigitChars[(m % 10) + 1]>> \o acc)
    IN go(n, <<>>)
numberOfText(text) ==
    LET RECURSIVE go(_, _)
        go(i, acc) == IF i > Len(text) THEN acc ELSE go(i + 1, acc * 10 + digitValue(text[i]))
    IN go(1, 0)

\* `slsm-${num}` with num padded to three digits (generatePatternId)
idText(n) ==
    <<"s", "l", "s", "m", "-">>
        \o <<DigitChars[((n \div 100) % 10) + 1], DigitChars[((n \div 10) % 10) + 1],
             DigitChars[(n % 10) + 1]>>

PlainScalar(text) == [k |-> "scalar", style |-> "PLAIN", source |-> text]
QuotedScalar(text) == [k |-> "scalar", style |-> "QUOTE_DOUBLE", source |-> text]
SeqNode(items) == [k |-> "seq", items |-> items]
MapNode(pairs) == [k |-> "map", pairs |-> pairs]

S_null == <<"n","u","l","l">>
S_true == <<"t","r","u","e">>
S_false == <<"f","a","l","s","e">>
S_tilde == <<"~">>
YamlIndicators == {"-", "?", ":", ",", "[", "]", "{", "}", "#", "&", "*", "!", "|", ">",
                   "%", "@"}

\* The value the core schema gives the text of a plain scalar: a comment
\* ends it, white space around it is dropped, then null, a boolean, an
\* integer, or the string.
resolvePlain(text) ==
    LET hashes == {i \in 2..Len(text) : text[i] = "#" /\ text[i - 1] = " "}
        cut == IF hashes = {} THEN text ELSE SubSeq(text, 1, Least(hashes) - 1)
        t == trim(cut)
    IN IF t = <<>> \/ t = S_null \/ t = S_tilde THEN Null
       ELSE IF t = S_true THEN Bool(TRUE)
       ELSE IF t = S_false THEN Bool(FALSE)
       ELSE IF \A i \in 1..Len(t) : t[i] \in Digits THEN Num(numberOfText(t))
       ELSE Str(t)

\* Whether a string cannot be written as a plain scalar.
needsQuotes(text) ==
    \/ text = <<>>
    \/ text[1] \in YamlIndicators \cup Whitespace
    \/ text[Len(text)] \in Whitespace
    \/ \E i \in 1..(Len(text) - 1) : text[i] = ":" /\ text[i + 1] = " "
    \/ resolvePlain(text) # Str(text)

\* The variant that writes every string as a plain scalar.
stringifyStringPlain(text) == PlainScalar(text)

stringifyString(text) == IF needsQuotes(text) THEN QuotedScalar(text) ELSE PlainScalar(text)

\* YAML.stringify(value) as far as the node tree; a property whose value is
\* undefined is left out.
RECURSIVE yamlStringify(_)
yamlStringify(value) ==
    CASE value.t = "string" -> stringifyString(value.v)
      [] value.t = "number" -> PlainScalar(numberText(value.v))
      [] value.t = "boolean" -> PlainScalar(IF value.v THEN S_true ELSE S_false)
      [] value.t = "null" -> PlainScalar(S_null)
      [] value.t = "array" -> SeqNode([i \in 1..Len(value.v) |-> yamlStringify(value.v[i])])
      [] value.t = "object" ->
            MapNode([f \in {g \in DOMAIN value.v : value.v[g] # Undefined} |->
                        yamlStringify(value.v[f])])

\* YAML.parse(content) from the node tree.
RECURSIVE yamlParse(_)
yamlParse(node) ==
    CASE node.k = "scalar" ->
            IF node.style = "PLAIN" THEN resolvePlain(node.source) ELSE Str(node.source)
      [] node.k = "seq" -> Arr([i \in 1..Len(node.items) |-> yamlParse(node.items[i])])
      [] node.k = "map" -> Obj([f \in DOMAIN node.pairs |-> yamlParse(node.pairs[f])])

\* A Pattern and a Playbook as the JavaScript values savePlaybook is given.
severityText(severity) ==
    CASE severity = "low" -> S_low [] severity = "medium" -> S_medium [] severity = "high" -> S_high
fixValue(fix) == Obj([f \in DOMAIN fix |-> Str(fix[f])])
stringsValue(texts) == Arr([i \in 1..Len(texts) |-> Str(texts[i])])
patternValue(pattern) ==
    Obj([id |-> Str(idText(pattern.id)),
         fingerprint |-> Str(pattern.fingerprint),
         pattern |-> Str(pattern.pattern),
         severity |-> Str(severityText(pattern.severity)),
         category |-> Str(pattern.category),
         title |-> Str(pattern.title),
         symptoms |-> stringsValue(pattern.symptoms),
         root_causes |-> stringsValue(pattern.root_causes),
         fixes |-> Arr([i \in 1..Len(pattern.fixes) |-> fixValue(pattern.fixes[i])]),
         feedback |-> Obj([helpful |-> Num(pattern.feedback.helpful),
                           harmful |-> Num(pattern.feedback.harmful)])])
playbookValue(patterns) ==
    Obj([patterns |-> Arr([i \in 1..Len(patterns) |-> patternValue(patterns[i])])])

\* savePlaybook(playbook): the content written; loadPlaybook(): data || { patterns: [] }
savedContent(value) == yamlStringify(value)
loadedValue(content) ==
    LET parsed == yamlParse(content)
    IN IF parsed \in {Null, Undefined, Bool(FALSE), Num(0), Str(<<>>)}
       THEN playbookValue(<<>>) ELSE parsed

S_123 == <<"1","2","3">>
S_space_x == <<" ","x">>
S_a_colon_b == <<"a",":"," ","b">>
S_x_hash_y == <<"x"," ","#","y">>
S_dash == <<"-">>
S_df_h == <<"d","f"," ","-","h">>
YamlTexts == {<<>>, S_Disk_Full, S_123, S_null, S_true, S_tilde, S_space_x, S_a_colon_b,
              S_x_hash_y, S_dash}
YamlFixes == {<<>>, <<[step |-> S_free_disk]>>,
              <<[step |-> S_123, command |-> S_df_h], [step |-> S_free_disk]>>}
YamlPool ==
    {createPattern(7, [title |-> text, symptoms |-> <<text>>, fixes |-> fixes,
                       severity |-> "high", feedback |-> [helpful |-> 12, harmful |-> 0]]) :
        text \in YamlTexts, fixes \in YamlFixes}

InitRoundTrip ==
    /\ arguments \in SeqsUpTo(YamlPool, MaxRecords)
    /\ returned = NotRun
    /\ ScoreIdle /\ MatchIdle /\ StoreIdle /\ ValidateIdle /\ EmbIdle

\* savePlaybook(p); loaded = loadPlaybook(); savePlaybook(loaded)
RunRoundTrip ==
    /\ returned = NotRun
    /\ LET content == savedContent(playbookValue(arguments))
           loaded == loadedValue(content)
       IN returned' = Ran([content |-> content, loaded |-> loaded,
                           again |-> savedContent(loaded)])
    /\ UNCHANGED <<arguments, scoreVars, matchVars, storeVars, validateVars, embVars>>

NextRoundTrip == RunRoundTrip

SpecRoundTrip == InitRoundTrip /\ [][NextRoundTrip]_vars

\* C20: loadPlaybook() after savePlaybook(p) gives a playbook equal to p,
\* record for record and field for field, and saving what was loaded writes
\* the content that was there.
C20_RoundTrip ==
    returned # NotRun =>
        /\ returned[1].loaded = playbookValue(arguments)
        /\ returned[1].again = returned[1].content

\* Two records went through, one with a title that reads as a number when
\* it is not quoted and a fix with a command, one with no fix.
C20_Witness ==
    /\ returned # NotRun
    /\ Len(arguments) = 2
    /\ arguments[1].title = S_123
    /\ Len(arguments[1].fixes) = 2
    /\ arguments[2].fixes = <<>>
    /\ returned[1].loaded.v.patterns.v[1].v.title = Str(S_123)

(***************************************************************************)
(* The commands as a whole, started with the log store database            *)
(* ~/.sls/sls.db and the playbook file there or missing.                   *)
(***************************************************************************)
SlsDbPath == "~/.sls/sls.db"
PlaybookPath == "~/.sls-memory/playbook.yaml"
NoPath == "none"

\* What a command leaves behind: its exit status, the path its output names
\* for a collaborator it did not find, the matches it prints, the records of
\* the playbook object it loaded as they are at its end (<<>> when it loaded
\* none), the playbook file and the two tables of embeddings.db.
CommandResult(status, path, matches, patterns, f, embeddingsTable, vocabularyTable) ==
    [status |-> status, path |-> path, matches |-> matches, patterns |-> patterns,
     file |-> f, embeddings |-> embeddingsTable, vocabulary |-> vocabularyTable]

\* A const declaration: the expression is evaluated once and the rest of the
\* function body uses its value.
ValueThen(expression, rest(_)) == CHOOSE r \in {rest(value) : value \in {expression}} : TRUE

\* The suggested patterns of the rows that are known.
knownPatternMatches(suggestions) ==
    LET RECURSIVE go(_, _)
        go(k, acc) ==
            IF k > Len(suggestions) THEN acc
            ELSE go(k + 1, IF suggestions[k].isNew
                           THEN acc ELSE Append(acc, suggestions[k].pattern))
    IN go(1, <<>>)

\* slsm reflect from the load on, over the rows the query returned.
reflectAfterQuery(a, generatedIds) ==
    LET afterLoad(patterns) ==
            LET afterLoop(suggestions) ==
                    LET afterFilter(newPatterns) ==
                            \* playbook.patterns.push(pattern) for each new pattern, then the save
                            LET pushed == IF reflectSaves(a.dryRun, newPatterns)
                                          THEN patterns \o newPatterns ELSE patterns
                            IN CommandResult(0, NoPath, knownPatternMatches(suggestions), pushed,
                                             IF reflectSaves(a.dryRun, newPatterns)
                                             THEN savePlaybook(pushed) ELSE a.file,
                                             a.embeddings, a.vocabulary)
                    IN ValueThen(newPatternsOf(suggestions), afterFilter)
            IN ValueThen(reflectSuggestions(reflectMatches(patterns, a.rows),
                                            reflectOverrides(a.rows), generatedIds), afterLoop)
    IN ValueThen(loadPlaybook(a.file), afterLoad)

\* The variant that goes on without the database.
reflectCommandWithoutCheck(a, generatedIds) == reflectAfterQuery(a, generatedIds)

\* slsm reflect: without the database it prints the error with dbPath and
\* calls process.exit(1) before anything is read.
reflectCommand(a, generatedIds) ==
    IF ~a.slsDb
    THEN CommandResult(1, SlsDbPath, <<>>, <<>>, a.file, a.embeddings, a.vocabulary)
    ELSE reflectAfterQuery(a, generatedIds)

\* The variant that writes the matched records back as the playbook.
contextCommandSavingMatches(a) ==
    LET found == contextResults(loadPlaybook(a.file), a.error, a.limit, a.service)
        matched == [k \in 1..Len(found) |-> found[k].pattern]
    IN CommandResult(0, NoPath, found, matched, savePlaybook(matched),
                     a.embeddings, a.vocabulary)

\* slsm context: the playbook is loaded and passed to findMatchingPatterns,
\* which reads it; nothing is assigned to a record and nothing is saved.
contextCommand(a) ==
    CommandResult(0, NoPath,
                  contextResults(loadPlaybook(a.file), a.error, a.limit, a.service),
                  loadPlaybook(a.file), a.file, a.embeddings, a.vocabulary)

\* slsm similar <query> [--limit n] [--rebuild], with a new manager.
similarCommand(a) ==
    LET afterLoad(patterns) ==
            LET rebuilt == (a.rebuild \/ Len(patterns) > 0) /\ patterns # <<>>
                afterBuild(store) ==
                    LET afterSearch(found) ==
                            \* .filter(m => m.pattern !== undefined)
                            CommandResult(0, NoPath,
                                SelectSeq(found,
                                    LAMBDA e : findPatternById(patterns, e.patternId) # 0),
                                patterns, a.file, store.embeddings, store.vocabulary)
                    IN ValueThen(findSimilar(store.manager, a.error, a.limit,
                                             store.embeddings, store.vocabulary).matches,
                                 afterSearch)
            IN ValueThen(IF rebuilt
                         THEN buildState(NewManager, patterns, 0, a.embeddings, a.vocabulary)
                         ELSE [manager |-> NewManager, embeddings |-> a.embeddings,
                               vocabulary |-> a.vocabulary],
                         afterBuild)
    IN ValueThen(loadPlaybook(a.file), afterLoad)

CommandFiles ==
    {NoFile, savePlaybook(<<CtxHelpful>>), savePlaybook(<<CtxUnrated, EmbDiskFull>>)}
CommandRows == {<<>>} \cup RowLists
\* embeddings.db as new, and as an earlier build left it.
CommandStores ==
    {[embeddings |-> <<>>, vocabulary |-> <<>>]} \cup
    {[embeddings |-> s.embeddings, vocabulary |-> s.vocabulary] :
        s \in {buildState(NewManager, <<EmbDiskFull, EmbConnLost>>, 0, <<>>, <<>>)}}

NoArguments ==
    [command |-> "none", slsDb |-> TRUE, file |-> NoFile, rows |-> <<>>, dryRun |-> FALSE,
     error |-> <<>>, limit |-> 0, service |-> NoService, rebuild |-> FALSE,
     embeddings |-> <<>>, vocabulary |-> <<>>]

CommandArguments ==
    {[NoArguments EXCEPT !.command = "reflect", !.slsDb = db, !.file = f,
                         !.rows = rows, !.dryRun = dryRun] :
        db \in BOOLEAN, f \in CommandFiles, rows \in CommandRows, dryRun \in BOOLEAN}
    \cup
    {[NoArguments EXCEPT !.command = "context", !.slsDb = db, !.file = f,
                         !.error = error, !.limit = lim, !.service = service] :
        db \in BOOLEAN, f \in CommandFiles, error \in ContextQueries,
        lim \in 1..MaxLimit, service \in {NoService, S_io}}
    \cup
    {[NoArguments EXCEPT !.command = "similar", !.slsDb = db, !.file = f,
                         !.error = error, !.limit = lim, !.rebuild = rebuild,
                         !.embeddings = s.embeddings, !.vocabulary = s.vocabulary] :
        db \in BOOLEAN, f \in CommandFiles, error \in QueryPool,
        lim \in 1..MaxLimit, rebuild \in BOOLEAN, s \in CommandStores}

InitCommand ==
    /\ arguments \in CommandArguments
    /\ returned = NotRun
    /\ ScoreIdle /\ MatchIdle /\ StoreIdle /\ ValidateIdle /\ EmbIdle

RunReflectCommand ==
    /\ returned = NotRun
    /\ arguments.command = "reflect"
    /\ \E generatedIds \in [1..Len(arguments.rows) -> Ids] :
           returned' = Ran(reflectCommand(arguments, generatedIds))
    /\ UNCHANGED <<arguments, scoreVars, matchVars, storeVars, validateVars, embVars>>

RunContextCommand ==
    /\ returned = NotRun
    /\ arguments.command = "context"
    /\ returned' = Ran(contextCommand(arguments))
    /\ UNCHANGED <<arguments, scoreVars, matchVars, storeVars, validateVars, embVars>>

RunSimilarCommand ==
    /\ returned = NotRun
    /\ arguments.command = "similar"
    /\ returned' = Ran(similarCommand(arguments))
    /\ UNCHANGED <<arguments, scoreVars, matchVars, storeVars, validateVars, embVars>>

NextCommand == RunReflectCommand \/ RunContextCommand \/ RunSimilarCommand

SpecCommand == InitCommand /\ [][NextCommand]_vars

\* The command did not find a collaborator it reads: reflect the database
\* or the playbook file, context and similar the playbook file.
CollaboratorMissing ==
    \/ arguments.command = "reflect" /\ ~arguments.slsDb
    \/ arguments.file = NoFile

\* C21 as stated: a command that does not find the log store database or
\* the playbook file names the path it tried in its output, returns no
\* match, and leaves the playbook file as it is.
C21_MissingCollaboratorReported ==
    (returned # NotRun /\ CollaboratorMissing) =>
        /\ returned[1].path # NoPath
        /\ returned[1].matches = <<>>
        /\ returned[1].file = arguments.file

\* C21 as the code has it: without the database reflect names the path, ends
\* with status 1 and leaves the playbook file as it is; a playbook file that
\* is missing is read as the empty playbook with nothing reported: context
\* and similar return no match and create no file, and reflect goes on and
\* creates the file exactly when it is not a dry run and has rows.
C21_MissingDatabaseReportedMissingPlaybookEmpty ==
    returned # NotRun =>
        /\ (arguments.command = "reflect" /\ ~arguments.slsDb) =>
               /\ returned[1].status = 1
               /\ returned[1].path = SlsDbPath
               /\ returned[1].matches = <<>>
               /\ returned[1].file = arguments.file
        /\ (arguments.file = NoFile /\ arguments.command \in {"context", "similar"}) =>
               /\ returned[1].status = 0
               /\ returned[1].path = NoPath
               /\ returned[1].matches = <<>>
               /\ returned[1].file = NoFile
        /\ (arguments.file = NoFile /\ arguments.command = "reflect" /\ arguments.slsDb) =>
               /\ returned[1].status = 0
               /\ returned[1].path = NoPath
               /\ returned[1].matches = <<>>
               /\ (returned[1].file # NoFile) <=>
                      (~arguments.dryRun /\ arguments.rows # <<>>)

\* reflect has ended without the database while the playbook file holds
\* records and the run had rows.
C21_Witness ==
    /\ returned # NotRun
    /\ arguments.command = "reflect"
    /\ ~arguments.slsDb
    /\ arguments.rows # <<>>
    /\ ~arguments.dryRun
    /\ arguments.file # NoFile
    /\ returned[1].path = SlsDbPath

(***************************************************************************)
(* reflectCommand's loop over rows whose counts lie on both sides of the   *)
(* severity thresholds, with and without a fingerprint of the log store.   *)
(***************************************************************************)
\* The column fingerprint is NULL or a text; NULL and the empty text, both of
\* which `row.fingerprint || ...` passes over, are <<>>.
ExtractCounts == {3, 4, 5, 9, 10, 12}
ExtractRowPool ==
    [message : {S_disk_full_42, S_Conn_lost}, count : ExtractCounts,
     fingerprint : {<<>>, S_conn_dash_lost}]
ExtractRows ==
    {rows \in SeqsUpTo(ExtractRowPool, MaxRows) :
        \A k \in 1..(Len(rows) - 1) : rows[k].count >= rows[k + 1].count}
ExtractPlaybooks == {<<>>, <<PatRegex>>, <<PatConn, PatFour>>}

InitExtract ==
    /\ arguments \in [patterns : ExtractPlaybooks, rows : ExtractRows]
    /\ returned = NotRun
    /\ ScoreIdle /\ MatchIdle /\ StoreIdle /\ ValidateIdle /\ EmbIdle

SpecExtract == InitExtract /\ [][NextReflect]_vars

\* C22: the record created for a new row has severity high for a count of
\* at least 10, medium for a count from 5 to 9 and low below 5; its
\* fingerprint is the row's fingerprint when the row has one and the
\* normalized message otherwise; its symptoms are the message alone, its
\* root causes the one text "Unknown - investigate logs", it has no fixes
\* and both feedback counters are 0.
C22_CreatedRecordSeeded ==
    returned # NotRun =>
        \A k \in 1..Len(returned[1]) :
            returned[1][k].isNew =>
                LET row == arguments.rows[k]
                    created == returned[1][k].pattern
                IN /\ row.count >= 10 => created.severity = "high"
                   /\ (row.count >= 5 /\ row.count < 10) => created.severity = "medium"
                   /\ row.count < 5 => created.severity = "low"
                   /\ row.fingerprint # <<>> => created.fingerprint = row.fingerprint
                   /\ row.fingerprint = <<>> =>
                          created.fingerprint = generateFingerprint(row.message)
                   /\ created.symptoms = <<row.message>>
                   /\ created.root_causes = <<UnknownRootCause>>
                   /\ created.fixes = <<>>
                   /\ created.feedback = [helpful |-> 0, harmful |-> 0]

\* A run has created two records: one for a row with count 10 and a
\* fingerprint, one for a row with count 4 and none, whose message holds a
\* number.
C22_Witness ==
    /\ returned # NotRun
    /\ Len(arguments.rows) = 2
    /\ returned[1][1].isNew /\ returned[1][2].isNew
    /\ arguments.rows[1].count = 10 /\ arguments.rows[1].fingerprint # <<>>
    /\ arguments.rows[2].count = 4 /\ arguments.rows[2].fingerprint = <<>>
    /\ arguments.rows[2].message = S_disk_full_42
    /\ returned[1][2].pattern.fingerprint # arguments.rows[2].message

(***************************************************************************)
(* Two feedback invocations for one record, the second loading before the  *)
(* first has saved.                                                        *)
(***************************************************************************)
votesOf(pattern) == pattern.feedback.helpful + pattern.feedback.harmful

\* C23: when a feedback invocation saves after another feedback invocation
\* for the same record has saved since its load (the persisted record has
\* one vote more than the loaded one), the persisted record afterwards has
\* both votes: helpful + harmful is 2 above what the invocation loaded.
C23_ConcurrentFeedbackBothCounted ==
    [][\A p \in Procs :
           (EndsNow(p) /\ last'.op \in FeedbackOps /\ last'.outcome = "ok") =>
               LET loaded == inv[p].patterns[findPatternById(inv[p].patterns, last'.id)]
               IN \A j \in 1..Len(file.patterns) :
                      (/\ file.patterns[j].uid = loaded.uid
                       /\ votesOf(file.patterns[j]) = votesOf(loaded) + 1) =>
                          \E k \in 1..Len(file'.patterns) :
                              /\ file'.patterns[k].uid = loaded.uid
                              /\ votesOf(file'.patterns[k]) = votesOf(loaded) + 2]_vars

(***************************************************************************)
(* Two processes that run buildFromPatterns on one embeddings.db. The      *)
(* method opens no transaction: every stmt.run and vocabStmt.run is a      *)
(* statement of its own, and the statements of the two processes reach     *)
(* the database in any order.                                              *)
(***************************************************************************)
\* The terms in the order the Set `vocabulary` and the Map idf hold them.
termsInOrder(patterns) ==
    LET documents == documentsOf(patterns)
        RECURSIVE concat(_)
        concat(k) == IF k > Len(documents) THEN <<>> ELSE documents[k] \o concat(k + 1)
    IN FirstOccurrences(concat(1))

RebuildLists ==
    {<<EmbDiskFull, EmbConnLost>>, <<EmbDiskSlow, EmbConnLost>>,
     <<EmbConnLost, EmbDiskFull>>, <<EmbDiskSlow>>}

NotBuilding == [patterns |-> <<>>, idf |-> <<>>, vectors |-> <<>>, i |-> 0, terms |-> <<>>]

InitRebuild ==
    /\ embeddings = <<>>
    /\ vocabulary = <<>>
    /\ pc = [p \in Procs |-> "idle"]
    /\ inv = [p \in Procs |-> NotBuilding]
    /\ built = <<>>
    /\ manager = <<>> /\ similar = <<>> /\ instance = 0 /\ clock = 0
    /\ file = <<>> /\ last = <<>> /\ started = 0
    /\ ScoreIdle /\ MatchIdle /\ ValidateIdle /\ CallIdle

RebuildFrame ==
    UNCHANGED <<manager, similar, instance, clock, file, last, started,
                scoreVars, matchVars, validateVars, callVars>>

\* new EmbeddingsManager() and buildFromPatterns(patterns) up to the first
\* INSERT: this.idf is computed. Each process builds once.
StartBuild(p, patterns) ==
    /\ pc[p] = "idle"
    /\ \A k \in 1..Len(built) : built[k].by # p
    /\ built' = Append(built, [patterns |-> patterns, by |-> p])
    /\ inv' = [inv EXCEPT ![p] = [patterns |-> patterns, idf |-> idfOf(patterns),
                                  vectors |-> <<>>, i |-> 1,
                                  terms |-> termsInOrder(patterns)]]
    /\ pc' = [pc EXCEPT ![p] = "vectors"]
    /\ UNCHANGED <<embeddings, vocabulary>>
    /\ RebuildFrame

\* One pass of the loop over the patterns: this.vectors.set and stmt.run.
StoreVector(p) ==
    /\ pc[p] = "vectors"
    /\ LET b == inv[p]
           pattern == b.patterns[b.i]
           vector == toVector(computeTf(documentsOf(b.patterns)[b.i]), b.idf)
       IN /\ embeddings' = InsertOrReplace(embeddings, pattern.id,
                               EmbeddingRow(vector.terms, patternToText(pattern), clock))
          /\ inv' = [inv EXCEPT ![p].vectors = MapSet(b.vectors, pattern.id, vector),
                                ![p].i = IF b.i = Len(b.patterns) THEN 1 ELSE b.i + 1]
          /\ pc' = [pc EXCEPT ![p] = IF b.i = Len(b.patterns) THEN "vocabulary" ELSE "vectors"]
    /\ UNCHANGED <<vocabulary, built>>
    /\ RebuildFrame

\* One pass of the loop over this.idf: vocabStmt.run.
StoreTerm(p) ==
    /\ pc[p] = "vocabulary"
    /\ LET b == inv[p]
           term == b.terms[b.i]
       IN /\ vocabulary' = InsertOrReplace(vocabulary, term, VocabularyRow(b.idf[term]))
          /\ inv' = [inv EXCEPT ![p].i = b.i + 1]
          /\ pc' = [pc EXCEPT ![p] = IF b.i = Len(b.terms) THEN "done" ELSE "vocabulary"]
    /\ UNCHANGED <<embeddings, built>>
    /\ RebuildFrame

NextRebuild ==
    \E p \in Procs :
        \/ \E patterns \in RebuildLists : StartBuild(p, patterns)
        \/ StoreVector(p)
        \/ StoreTerm(p)

SpecRebuild == InitRebuild /\ [][NextRebuild]_vars

\* What a table holds, without the rowids.
columnsOf(table) ==
    [key \in DOMAIN table |-> [c \in DOMAIN table[key] \ {"rowid"} |-> table[key][c]]]

\* The two tables as buildFromPatterns(patterns) writes them into an empty
\* database.
rebuildOutput(patterns) ==
    LET after == buildState(NewManager, patterns, 0, <<>>, <<>>)
    IN <<columnsOf(after.embeddings), columnsOf(after.vocabulary)>>

\* C24: when two builds from different lists have both run to their end,
\* the rows of the tables embeddings and vocabulary are the rows one of the
\* two builds writes, all of them and no others.
C24_RebuildsLastWriterWins ==
    (/\ \A p \in Procs : pc[p] = "done"
     /\ built[1].patterns # built[2].patterns) =>
        \E k \in 1..2 :
            <<columnsOf(embeddings), columnsOf(vocabulary)>> = rebuildOutput(built[k].patterns)

\* C25: slsm context and slsm similar, with and without --rebuild and on an
\* embeddings.db new or left by an earlier build, end with the records of the
\* loaded playbook as they were loaded, field for field, and with the
\* playbook file as it was; only the tables of embeddings.db change.
C25_ReadOnlyCommandsKeepRecords ==
    (returned # NotRun /\ arguments.command \in {"context", "similar"}) =>
        /\ returned[1].patterns = loadPlaybook(arguments.file)
        /\ returned[1].file = arguments.file
        /\ \A k \in 1..Len(returned[1].matches) :
               \E i \in 1..Len(loadPlaybook(arguments.file)) :
                   LET entry == returned[1].matches[k]
                       record == loadPlaybook(arguments.file)[i]
                   IN IF arguments.command = "context"
                      THEN entry.pattern = record
                      ELSE entry.patternId = record.id

\* slsm similar has rebuilt a store that an earlier build left, changed its
\* tables and returned a match.
C25_Witness ==
    /\ returned # NotRun
    /\ arguments.command = "similar"
    /\ arguments.file # NoFile
    /\ arguments.embeddings # <<>>
    /\ returned[1].embeddings # arguments.embeddings
    /\ returned[1].matches # <<>>

\* The category of a record contains the service text, case aside.
passesService(pattern, service) ==
    includes(toLowerCase(pattern.category), toLowerCase(service))

\* C26: with a service filter, every returned record's category contains
\* the service text, and a record that matches the message and passes the
\* filter is missing from the result only when the result holds `limit`
\* records, each with a score at least as high.
C26_FilteredTopLimit ==
    (returned # NotRun /\ arguments.service # NoService) =>
        /\ \A k \in 1..Len(returned[1]) :
               passesService(returned[1][k].pattern, arguments.service)
        /\ \A i \in 1..Len(arguments.patterns) :
               LET entry == matchPattern(arguments.patterns[i], arguments.error)
               IN (/\ entry # <<>>
                   /\ passesService(arguments.patterns[i], arguments.service)
                   /\ \A k \in 1..Len(returned[1]) :
                          returned[1][k].pattern # arguments.patterns[i]) =>
                      /\ Len(returned[1]) = arguments.limit
                      /\ \A k \in 1..Len(returned[1]) :
                             ~ScoreLess(returned[1][k].score, entry[1].score)

(***************************************************************************)
(* slsm reflect run twice over the same rows, the second run loading what  *)
(* the first saved. The messages hold syntax characters of RegExp, and     *)
(* some are longer than the 50 characters the matcher keeps.               *)
(***************************************************************************)
S_a_dot_b_paren == <<"a", ".", "b", "(", "c", ")">>
S_backslash == <<"C", ":", "\\", "t", "m", "p", " ", "[", "x", "]", "+">>
\* 49 characters, then `(`: the cut to 50 characters falls between the `\`
\* of the escape and the `(`.
S_cut_in_escape == Filler(MatcherPrefixLength - 1) \o <<"(", "x", ")">>
S_long == Filler(MatcherPrefixLength + 10) \o <<" ", "d", "i", "s", "k">>

AgainMessages ==
    {S_a_dot_b_paren, S_backslash, S_cut_in_escape, S_long, S_Conn_lost, S_disk_full_42}
AgainRows ==
    {rows \in DistinctSeqsUpTo([message : AgainMessages, count : {3}, fingerprint : {<<>>}],
                               MaxRows) :
        \A i, j \in 1..Len(rows) : i # j => rows[i].message # rows[j].message}

InitAgain ==
    /\ arguments \in {[NoArguments EXCEPT !.command = "reflect", !.file = f, !.rows = rows] :
                         f \in {NoFile, savePlaybook(<<PatRegex>>)}, rows \in AgainRows}
    /\ returned = NotRun
    /\ ScoreIdle /\ MatchIdle /\ StoreIdle /\ ValidateIdle /\ EmbIdle

\* One run to its end, then another over the same rows.
RunReflectAgain ==
    /\ returned = NotRun
    /\ \E firstIds \in [1..Len(arguments.rows) -> Ids] :
           \E first \in {reflectCommand(arguments, firstIds)} :
           \E again \in {[arguments EXCEPT !.file = first.file]} :
           \E secondIds \in [1..Len(arguments.rows) -> Ids] :
               returned' = Ran([first |-> first,
                                second |-> reflectCommand(again, secondIds)])
    /\ UNCHANGED <<arguments, scoreVars, matchVars, storeVars, validateVars, embVars>>

NextAgain == RunReflectAgain

SpecAgain == InitAgain /\ [][NextAgain]_vars

\* C27: when the first run has saved new records, each new record's matcher
\* compiles and matches, with score 100, the message in its symptoms; the
\* second run over the same rows finds every row known, creates no record
\* and leaves the file as the first run wrote it.
C27_SecondExtractionAddsNothing ==
    (/\ returned # NotRun
     /\ Len(returned[1].first.patterns) > Len(loadPlaybook(arguments.file))) =>
        LET first == returned[1].first
            second == returned[1].second
        IN /\ \A k \in (Len(loadPlaybook(arguments.file)) + 1)..Len(first.patterns) :
                  LET created == first.patterns[k]
                      message == created.symptoms[1]
                  IN /\ \E r \in 1..Len(arguments.rows) : arguments.rows[r].message = message
                     /\ RegExpSupported(created.pattern)
                     /\ RegExpValid(created.pattern)
                     /\ RegExpTest(created.pattern, message, TRUE)
                     /\ ScoreEQ(matchPattern(created, message)[1].score, 100)
           /\ Len(second.matches) = Len(arguments.rows)
           /\ second.patterns = first.patterns
           /\ second.file = first.file

\* The first run has created two records, one from a message cut inside an
\* escape and one from a message with a backslash and brackets.
C27_Witness ==
    /\ returned # NotRun
    /\ Len(returned[1].first.patterns) = Len(loadPlaybook(arguments.file)) + 2
    /\ \E i, j \in 1..2 :
           /\ arguments.rows[i].message = S_cut_in_escape
           /\ arguments.rows[j].message = S_backslash
    /\ returned[1].second.file = returned[1].first.file


\* C28: a following MCP tool on a playbook file saved by the CLI. When no other
\* invocation is under way and the tool's copy is what it reads from the file
\* as it is now, slsm_add_pattern leaves the stored records in the file and
\* adds exactly one, and slsm_feedback finds every stored record by its id.
C28_McpKeepsCliRecords ==
    [][\A p \in Procs :
           (/\ EndsNow(p)
            /\ inv[p].via = "mcp"
            /\ file = savePlaybook(file.patterns)
            /\ inv[p].patterns = mcpLoadPlaybook(file)
            /\ \A q \in Procs \ {p} : pc[q] = "idle") =>
               /\ last'.op = "slsm_add_pattern" =>
                      /\ Len(file'.patterns) = Len(file.patterns) + 1
                      /\ SubSeq(file'.patterns, 1, Len(file.patterns)) = file.patterns
               /\ (last'.op = "slsm_feedback" /\ last'.id \in IdsOf(file.patterns)) =>
                      last'.outcome = "ok"]_vars


(***************************************************************************)
(* Extraction runs one after another, starting without a playbook          *)
(***************************************************************************)
MaxRuns == 2            \* most extraction runs in a behaviour

S_disk_full_7 == <<"d","i","s","k"," ","f","u","l","l"," ","7">>

\* GROUP BY COALESCE(fingerprint, message): the rows of one run differ in
\* their fingerprint, or in their message where the fingerprint is NULL.
groupKey(row) == IF row.fingerprint # <<>> THEN row.fingerprint ELSE row.message
RunRows ==
    {rows \in DistinctSeqsUpTo([message : {S_disk_full_42, S_disk_full_7, S_Conn_lost},
                                count : {3},
                                fingerprint : {<<>>, S_conn_dash_lost}], MaxRows) :
        \A i, j \in 1..Len(rows) : i # j => groupKey(rows[i]) # groupKey(rows[j])}

InitRuns ==
    /\ file = NoFile
    /\ pc = [p \in Procs |-> "idle"]
    /\ inv = [p \in Procs |-> Idle]
    /\ last = Report("none", "none", FALSE, 0, "none")
    /\ started = 0
    /\ ScoreIdle /\ MatchIdle /\ ValidateIdle /\ EmbIdle /\ CallIdle

\* slsm reflect without --dry-run, from the query to the save.
ReflectRun(rows) ==
    /\ started < MaxRuns
    /\ started' = started + 1
    /\ \E generatedIds \in [1..Len(rows) -> Ids] :
           \E a \in {[NoArguments EXCEPT !.command = "reflect", !.file = file, !.rows = rows]} :
           \E r \in {reflectCommand(a, generatedIds)} :
               /\ file' = r.file
               /\ last' = ReflectReport(r.file # file, FALSE, rows)
    /\ UNCHANGED <<pc, inv, scoreVars, matchVars, validateVars, embVars, callVars>>

NextRuns == \E rows \in RunRows : ReflectRun(rows)

SpecRuns == InitRuns /\ [][NextRuns]_vars

\* C29: after any sequence of extraction runs that save, starting from an
\* empty playbook, no two records of the persisted playbook have the same
\* fingerprint.
C29_FingerprintsUnique ==
    \A i, j \in 1..Len(file.patterns) :
        i # j => file.patterns[i].fingerprint # file.patterns[j].fingerprint


(***************************************************************************)
(* Validation on records whose counters are numbers of any kind            *)
(***************************************************************************)
\* feedback: {helpful: -1, harmful: 0} in the YAML file
RecNegativeFeedback ==
    Obj([VF(Str(<<"a">>), Str(S_low), Str(S_DISK), Str(S_slow))
            EXCEPT !.feedback = Obj([helpful |-> Num(-1), harmful |-> Num(0)])])
RecVoted ==
    Obj([VF(Str(<<"b">>), Str(S_medium), Str(S_lostAny), Str(S_slow))
            EXCEPT !.feedback = Obj([helpful |-> Num(2), harmful |-> Num(1)])])

SoundDocuments ==
    {Obj([patterns |-> Arr(ps)]) :
        ps \in SeqsUpTo(ValidatePool \cup {RecNegativeFeedback, RecVoted}, MaxRecords)}

InitSound ==
    /\ document \in SoundDocuments
    /\ errors = NotRun
    /\ ScoreIdle /\ MatchIdle /\ StoreIdle /\ EmbIdle /\ CallIdle

SpecSound == InitSound /\ [][NextValidate]_vars

\* C30: when validatePlaybook returns no errors, every record has a non-empty
\* string id that no other record has, a severity of low, medium or high,
\* arrays as symptoms, root_causes and fixes, a matcher that compiles, and
\* helpful and harmful counters that are non-negative integers.
C30_ValidationSound ==
    (errors = Ran(<<>>)) =>
        /\ PatternList(document)
        /\ LET ps == document.v.patterns.v
           IN \A i \in 1..Len(ps) :
                  /\ IsText(Get(ps[i], "id")) /\ Get(ps[i], "id").v # <<>>
                  /\ \A j \in 1..Len(ps) : i # j => Get(ps[i], "id") # Get(ps[j], "id")
                  /\ Get(ps[i], "severity") \in {Str(S_low), Str(S_medium), Str(S_high)}
                  /\ \A k \in 1..Len(arrayFields) : isArray(Get(ps[i], arrayFields[k]))
                  /\ IsText(Get(ps[i], "pattern")) /\ RegExpValid(Get(ps[i], "pattern").v)
                  /\ \A name \in {"helpful", "harmful"} :
                         /\ Get(Get(ps[i], "feedback"), name).t = "number"
                         /\ Get(Get(ps[i], "feedback"), name).v \in Nat
====
